---- MODULE Spec2Model ----
(***************************************************************************)
(* DockCI job pipeline: Job.queue, the worker hand-off and Job._run_now    *)
(* (src/dockci/models/job.py), with the build stage's existing-image       *)
(* policy (src/dockci/models/job_meta/stages_main.py), Job.state and the   *)
(* Docker client selection Job.docker_client; the older Build._run_now     *)
(* (src/dockci/models/build.py); the new-build view with the GitHub        *)
(* signature check (views/build.py, util.py), the project API              *)
(* (api/project.py), and the helpers Job.state_data_for, Job.slug_from_id, *)
(* OAuthToken.update_details_from and FilesystemBlob.from_files.           *)
(*                                                                         *)
(* Strings the code computes with (tags, image names) are sequences of     *)
(* one-character strings, so that formatting and matching are computed.    *)
(* NULL columns: 0 for a timestamp or an id, "None" for result, <<>> for   *)
(* tag and branch (the empty string is not among the modelled tags), -1    *)
(* for exit_code.                                                          *)
(***************************************************************************)
EXTENDS Integers, Sequences, FiniteSets, TLC

VARIABLES
    cfg,           \* the scenario: project and job_config settings, and the
                   \* outcomes its stages can have
    jobs,          \* the job table: per job id, the committed row
    stages,        \* the job stage table: per job id, the committed rows
                   \* (slugs, ordered by id)
    stage_logs,    \* log written for the error pseudo-stages
    worker_queue,  \* APP.worker_queue
    qcalls,        \* number of Job.queue() calls made so far
    qlimit,        \* number of Job.queue() calls the scenario makes
    qerr,          \* what the last Job.queue() call raised
    pool,          \* the worker processes of the deployment
    job_of,        \* per worker: id of the job it has loaded (0: none)
    pc,            \* per worker: position in Job._run_now
    pend,          \* per worker: attributes assigned but not yet committed
    trace,         \* per worker: the stages it ran, with their outcome
    exc,           \* per worker: the exception in flight
    ret,           \* per worker: return value of Job._run_now
    uidx,          \* per worker: number of utility stages already run
    images,        \* the Docker daemon's images of the project
    calls,         \* the daemon calls issued by the build stage, in order
    clock,         \* datetime.now()
    client,        \* per process: Job._docker_client (the cached client)
    got,           \* per process: what the last access to Job.docker_client
                   \* returned or raised
    nacc,          \* per process: number of accesses to Job.docker_client
    call,          \* the request or the call being served, with its inputs
    res,           \* what it answered, returned or raised
    projects,      \* the project table, by slug
    builds,        \* the builds build_new_view saved
    build_queue,   \* the builds build_new_view queued
    build,         \* the Build object Build._run_now works on
    build_file,    \* what Build.save() wrote last
    bpc,           \* position in Build._run_now
    bevents,       \* the stages Build._run_now started, with what became
                   \* of their run
    workdir,       \* the temporary directory of Build._run_now
    log,           \* per stage of the build: the bytes in its log file
    loader,        \* the generator streaming a log file to a client
    test           \* the TestStage being run: its job, the daemon calls
                   \* made and the commits done

\* the state of the Docker client selection
dvars == <<client, got, nacc>>

\* the state of the web handlers and of the model helpers
avars == <<call, res, projects, builds, build_queue>>

\* the state of a Build run
bvars == <<build, build_file, bpc, bevents, workdir>>

\* the log files and their reader, and the test stage
svars == <<log, loader, test>>

vars == <<cfg, jobs, stages, stage_logs, worker_queue, qcalls, qlimit, qerr,
          pool, job_of, pc, pend, trace, exc, ret, uidx, images, calls, clock,
          dvars, avars, bvars, svars>>

-----------------------------------------------------------------------------
(* Bounds *)

MaxUtils == 1
MaxQueueCalls == 2
MaxAccess == 2
\* the largest of the consecutive job ids
MaxId == 40
\* the longest list of files a blob is made from
MaxFiles == 2
\* the number of builds the new-build view may save
MaxBuilds == 1
\* CHUNK_SIZE of blob.py (4000 there), scaled down to the file contents of
\* the model
CHUNK_SIZE == 2

Workers == {"w1", "w2"}
JobId == 1

\* the row and the stage rows of the job the single-job scenarios run
db == jobs[JobId]
job_stages == stages[JobId]

-----------------------------------------------------------------------------
(* Strings *)

V123 == <<"v", "1", ".", "2", ".", "3">>
V200 == <<"v", "2", ".", "0", ".", "0">>
Nightly == <<"n", "i", "g", "h", "t", "l", "y">>
Tags == {V123, Nightly}
NoTag == <<>>

Main == <<"m", "a", "i", "n">>
NoBranch == <<>>

ProjectSlug == <<"p">>
RegistryBase == <<"r">>

Digits == {"0", "1", "2", "3", "4", "5", "6", "7", "8", "9"}

RECURSIVE SkipDigits(_, _)
SkipDigits(s, i) ==
    IF i <= Len(s) /\ s[i] \in Digits THEN SkipDigits(s, i + 1) ELSE i

\* re.match(r'^v\d+\.\d+\.\d+$', version) is not None
is_semantic(version) ==
    /\ Len(version) >= 1
    /\ version[1] = "v"
    /\ LET a == SkipDigits(version, 2) IN
       /\ a > 2 /\ a <= Len(version) /\ version[a] = "."
       /\ LET b == SkipDigits(version, a + 1) IN
          /\ b > a + 1 /\ b <= Len(version) /\ version[b] = "."
          /\ LET c == SkipDigits(version, b + 1) IN
             /\ c > b + 1
             /\ \/ c = Len(version) + 1
                \/ c = Len(version) /\ version[c] = "\n"

-----------------------------------------------------------------------------
(* The job as a worker sees it: its uncommitted assignments over the row *)

NoChanges == [f \in {} |-> 0]

Job(w) == pend[w] @@ jobs[job_of[w]]

Flush(w) == pend[w] @@ jobs[job_of[w]]

\* db_session.add(self); db_session.commit()
Commit(w, row) == jobs' = [jobs EXCEPT ![job_of[w]] = row]

\* a row added to the stage table and committed
AddStage(w, slug) == stages' = [stages EXCEPT ![job_of[w]] = Append(@, slug)]

\* Job.state, of a job loaded from the committed row and stage rows
state(job, stage_rows) ==
    IF job.result # "None" THEN job.result
    ELSE IF stage_rows # <<>> THEN "running"
    ELSE "queued"

\* Job.branch_tag
branch_tag(git_branch) ==
    IF git_branch # NoBranch
    THEN <<"l", "a", "t", "e", "s", "t", "-">> \o git_branch
    ELSE NoTag

\* a tag alone making the job a push candidate
tag_push_candidate_NoRegistry(job) == job.tag # NoTag

\* Job.tag_push_candidate
tag_push_candidate(job) == job.tag # NoTag /\ cfg.target_registry

\* project.branch_pattern.match(git_branch), for the patterns of the model:
\* no pattern, or the pattern ^main$
pattern_matches(pattern, git_branch) ==
    pattern = "^main$" /\ git_branch = Main

\* a matching branch alone making the job a push candidate
branch_push_candidate_NoRegistry(job) ==
    /\ cfg.git_branch # NoBranch
    /\ cfg.branch_pattern # "None"
    /\ pattern_matches(cfg.branch_pattern, cfg.git_branch)

\* Job.branch_push_candidate
branch_push_candidate(job) ==
    /\ cfg.git_branch # NoBranch
    /\ cfg.branch_pattern # "None"
    /\ cfg.target_registry
    /\ pattern_matches(cfg.branch_pattern, cfg.git_branch)

\* Job.push_candidate
push_candidate(job) == tag_push_candidate(job) \/ branch_push_candidate(job)

\* Job.is_good_state
is_good_state(job) ==
    \/ job.result = "success"
    \/ job.result = "None" /\ job.exit_code = 0

\* Job.pushable
pushable(job) == push_candidate(job) /\ is_good_state(job)

\* Job.docker_tag
docker_tag(job) ==
    IF ~push_candidate(job) THEN NoTag
    ELSE IF tag_push_candidate(job) THEN job.tag
    ELSE branch_tag(cfg.git_branch)

\* Job.docker_image_name
docker_image_name ==
    IF cfg.target_registry
    THEN RegistryBase \o <<"/">> \o ProjectSlug
    ELSE ProjectSlug

\* Job.docker_full_name
docker_full_name(job) ==
    LET tag == docker_tag(job) IN
    IF tag # NoTag THEN docker_image_name \o <<":">> \o tag
    ELSE docker_image_name

-----------------------------------------------------------------------------
(* Stage outcomes: status 0, a non-zero status, or a raised exception (whose
   class does or does not carry human_str) *)

StageOutcomes == {"ok", "fail", "raise", "raise_human"}

IsRaise(o) == o \in {"raise", "raise_human"}

UtilSlugs == <<"utility_1", "utility_2", "utility_3", "utility_4">>

\* 'utility_%s' % suffix
UtilSlug(i) == UtilSlugs[i]

\* JobStageBase.run: the stage's row is added and committed, then the
\* runnable is called
Record(w, slug, o) ==
    /\ AddStage(w, slug)
    /\ trace' = [trace EXCEPT ![w] = Append(@, [slug |-> slug, out |-> o])]

\* the runnable raised: nothing below the orchestrator catches it
Raised(w, o, handler) ==
    /\ Commit(w, Flush(w))
    /\ pend' = [pend EXCEPT ![w] = NoChanges]
    /\ pc' = [pc EXCEPT ![w] = handler]
    /\ exc' = [exc EXCEPT ![w] = o]
    /\ UNCHANGED ret

\* the stage returned and the orchestrator goes on to the next stage
Continue(w, sets, next) ==
    /\ Commit(w, Flush(w))
    /\ pend' = [pend EXCEPT ![w] = sets]
    /\ pc' = [pc EXCEPT ![w] = next]
    /\ UNCHANGED <<exc, ret>>

\* self.result = result; [add; commit;] return value -- control passes to
\* the finally block
Return(w, sets, result, commit, value) ==
    LET new == ("result" :> result) @@ sets IN
    /\ IF commit
       THEN /\ Commit(w, new @@ Flush(w))
            /\ pend' = [pend EXCEPT ![w] = NoChanges]
       ELSE /\ Commit(w, Flush(w))
            /\ pend' = [pend EXCEPT ![w] = new]
    /\ pc' = [pc EXCEPT ![w] = "external_status_complete"]
    /\ ret' = [ret EXCEPT ![w] = value]
    /\ UNCHANGED exc

\* a stage of the try body run with .run(0) inside all(...)
GatingStage(w, slug, o, commit, next) ==
    /\ Record(w, slug, o)
    /\ IF IsRaise(o) THEN Raised(w, o, "except")
       ELSE IF o = "fail" THEN Return(w, NoChanges, "broken", commit, "False")
       ELSE Continue(w, NoChanges, next)

\* a stage run with .run(None) whose status is looked at all the same
AdvisoryStage_Gating(w, slug, o, sets, next) ==
    GatingStage(w, slug, o, TRUE, next)

\* a stage of the try body whose status is not looked at
AdvisoryStage(w, slug, o, sets, next) ==
    /\ Record(w, slug, o)
    /\ IF IsRaise(o) THEN Raised(w, o, "except")
       ELSE Continue(w, sets, next)

\* push_prep_stage: the stage runs only for a push candidate
AfterTag(job) ==
    IF push_candidate(job) THEN "docker_push_prep" ELSE "docker_login"

\* the orchestrator running git_changes again after git_mtime
AfterMtime_Retry(job) == "git_changes"

\* tag_stage: the stage runs only for a job without a tag
AfterMtime(job) ==
    IF job.tag # NoTag THEN AfterTag(job) ELSE "git_tag"

\* the utility stages, then docker_provision
AfterLogin(n) ==
    IF n < cfg.nutils THEN "utility" ELSE "docker_provision"

\* if self.project.github_repo_id: external_status_start
AfterGitInfo ==
    IF cfg.github_repo_id THEN "external_status_start" ELSE "git_changes"

-----------------------------------------------------------------------------
(* Job.queue *)

\* Job.queue without the start_ts check
Queue_Unguarded ==
    /\ qcalls < qlimit
    /\ qcalls' = qcalls + 1
    /\ qerr' = "None"
    /\ worker_queue' = Append(worker_queue, JobId)
    /\ UNCHANGED <<cfg, job_of, dvars, avars, bvars, svars, jobs, stages, stage_logs, qlimit, pool, pc, pend,
                   trace, exc, ret, uidx, images, calls, clock>>

Queue ==
    /\ qcalls < qlimit
    /\ qcalls' = qcalls + 1
    /\ IF db.start_ts # 0
       THEN /\ qerr' = "AlreadyRunError"
            /\ UNCHANGED worker_queue
       ELSE /\ qerr' = "None"
            /\ worker_queue' = Append(worker_queue, JobId)
    /\ UNCHANGED <<cfg, job_of, dvars, avars, bvars, svars, jobs, stages, stage_logs, qlimit, pool, pc, pend,
                   trace, exc, ret, uidx, images, calls, clock>>

(* the worker takes a job id off the queue and loads the job *)
WorkerGet(w) ==
    /\ w \in pool
    /\ pc[w] = "idle"
    /\ worker_queue # <<>>
    /\ Head(worker_queue) = JobId
    /\ worker_queue' = Tail(worker_queue)
    /\ job_of' = [job_of EXCEPT ![w] = Head(worker_queue)]
    /\ pc' = [pc EXCEPT ![w] = "start"]
    /\ pend' = [pend EXCEPT ![w] = NoChanges]
    /\ UNCHANGED <<cfg, dvars, avars, bvars, svars, jobs, stages, stage_logs, qcalls, qlimit, qerr, pool, trace,
                   exc, ret, uidx, images, calls, clock>>

(* Job._run_now: start_ts = now; add; commit *)
RunNow(w) ==
    /\ pc[w] = "start"
    /\ Commit(w, ("start_ts" :> clock) @@ Flush(w))
    /\ pend' = [pend EXCEPT ![w] = NoChanges]
    /\ clock' = clock + 1
    /\ pc' = [pc EXCEPT ![w] = "git_prepare"]
    /\ UNCHANGED <<cfg, job_of, dvars, avars, bvars, svars, stages, stage_logs, worker_queue, qcalls, qlimit, qerr,
                   pool, trace, exc, ret, uidx, images, calls>>

frame == <<cfg, job_of, dvars, avars, bvars, svars, stage_logs, worker_queue, qcalls, qlimit, qerr, pool, uidx, images,
           calls, clock>>

Workdir(w) ==
    /\ pc[w] = "git_prepare"
    /\ \E o \in cfg.outcomes :
          GatingStage(w, "git_prepare", o, FALSE, "git_info")
    /\ UNCHANGED frame

GitInfo(w) ==
    /\ pc[w] = "git_info"
    /\ \E o \in cfg.outcomes :
          GatingStage(w, "git_info", o, FALSE, AfterGitInfo)
    /\ UNCHANGED frame

ExternalStatusStart(w) ==
    /\ pc[w] = "external_status_start"
    /\ \E o \in cfg.outcomes :
          AdvisoryStage(w, "external_status_start", o, NoChanges,
                        "git_changes")
    /\ UNCHANGED frame

GitChanges(w) ==
    /\ pc[w] = "git_changes"
    /\ \E o \in cfg.outcomes :
          GatingStage(w, "git_changes", o, TRUE, "git_mtime")
    /\ UNCHANGED frame

GitMtime(w) ==
    /\ pc[w] = "git_mtime"
    /\ \E o \in cfg.outcomes :
          AdvisoryStage(w, "git_mtime", o, NoChanges, AfterMtime(Job(w)))
    /\ UNCHANGED frame

\* on status 0 the stage has derived a tag from the repository
TagVersion(w) ==
    /\ pc[w] = "git_tag"
    /\ \E o \in cfg.outcomes, t \in Tags :
          LET sets == IF o = "ok" THEN ("tag" :> t) ELSE NoChanges IN
          AdvisoryStage(w, "git_tag", o, sets, AfterTag(sets @@ Job(w)))
    /\ UNCHANGED frame

PushPrep(w) ==
    /\ pc[w] = "docker_push_prep"
    /\ \E o \in cfg.outcomes :
          AdvisoryStage(w, "docker_push_prep", o, NoChanges, "docker_login")
    /\ UNCHANGED frame

DockerLogin(w) ==
    /\ pc[w] = "docker_login"
    /\ \E o \in cfg.outcomes :
          GatingStage(w, "docker_login", o, TRUE, AfterLogin(0))
    /\ UNCHANGED frame

Utility(w) ==
    /\ pc[w] = "utility"
    /\ \E o \in cfg.outcomes :
          GatingStage(w, UtilSlug(uidx[w] + 1), o, TRUE,
                      AfterLogin(uidx[w] + 1))
    /\ uidx' = [uidx EXCEPT ![w] = @ + 1]
    /\ UNCHANGED <<cfg, job_of, dvars, avars, bvars, svars, stage_logs, worker_queue, qcalls, qlimit, qerr, pool, images,
                   calls, clock>>

Provision(w) ==
    /\ pc[w] = "docker_provision"
    /\ \E o \in cfg.outcomes :
          GatingStage(w, "docker_provision", o, TRUE, "docker_build")
    /\ UNCHANGED frame

-----------------------------------------------------------------------------
(* BuildStage (stages_main.py) *)

Range(s) == {s[i] : i \in DOMAIN s}

\* the repository:tag the daemon gives to a build called with tag=name
DaemonTag(name) ==
    IF ":" \in Range(name) THEN name
    ELSE name \o <<":", "l", "a", "t", "e", "s", "t">>

\* for image in images(name=slug): if tag in image['RepoTags']: ... break
existing_image(job, tag) ==
    IF job.tag # NoTag
    THEN {image \in images : tag \in image.RepoTags}
    ELSE {}

\* existing image of versioned tagged code: raise AlreadyBuiltError
already_built(job, tag) ==
    existing_image(job, tag) # {} /\ is_semantic(job.tag)

\* the cache left on for tags that are not semantic versions
no_cache_Semantic(job) == is_semantic(job.tag)

\* no_cache = (self.job.tag is not None)
no_cache(job) == job.tag # NoTag

\* the daemon's images once remove_image was served; rm_ok is whether the
\* removal succeeded
ImagesAfterRemove(job, tag, rm_ok) ==
    IF rm_ok /\ ~already_built(job, tag)
    THEN images \ existing_image(job, tag)
    ELSE images

\* the daemon's images once a build tagged tag has produced the image id:
\* the name moves to the new image
ImagesAfterBuild(tag, id) ==
    {[Id |-> i.Id, RepoTags |-> i.RepoTags \ {DaemonTag(tag)}] : i \in images}
        \cup {[Id |-> id, RepoTags |-> {DaemonTag(tag)}]}

\* the daemon calls of the existing-image check, in the order they are
\* issued
CheckCalls(w, job, tag) ==
    (IF job.tag # NoTag THEN <<[op |-> "images", by |-> w]>> ELSE <<>>)
    \o (IF existing_image(job, tag) # {} /\ ~is_semantic(job.tag)
        THEN <<[op |-> "remove_image", by |-> w,
                image |-> (CHOOSE i \in existing_image(job, tag) : TRUE).Id]>>
        ELSE <<>>)

\* the build call of runnable_docker
BuildCalls(w, job, tag) ==
    <<[op |-> "build", by |-> w, tag |-> tag, nocache |-> no_cache(job)]>>

\* BuildStage.runnable_docker up to the build call: the stage row is added,
\* the daemon's images are listed, and an image held under the job's name
\* makes the stage raise (semantic tag) or is removed (an APIError from the
\* removal is swallowed)
BuildCheck(w) ==
    /\ pc[w] = "docker_build"
    /\ \E rm_ok \in BOOLEAN :
          LET job == Job(w)
              tag == docker_full_name(job)
          IN  /\ AddStage(w, "docker_build")
              /\ calls' = calls \o CheckCalls(w, job, tag)
              /\ images' = ImagesAfterRemove(job, tag, rm_ok)
              /\ IF already_built(job, tag)
                 THEN /\ trace' = [trace EXCEPT ![w] =
                             Append(@, [slug |-> "docker_build",
                                        out |-> "raise_human"])]
                      /\ Raised(w, "raise_human", "except")
                 ELSE /\ Continue(w, NoChanges, "docker_build_call")
                      /\ UNCHANGED trace
    /\ UNCHANGED <<cfg, job_of, dvars, avars, bvars, svars, stage_logs, worker_queue, qcalls,
                   qlimit, qerr, pool, uidx, clock>>

\* the build call made under a lock held since the check: an image that
\* appeared under the tag in between makes the stage raise
Build_Exclusive(w) ==
    /\ pc[w] = "docker_build_call"
    /\ \E o \in cfg.outcomes :
          LET job == Job(w)
              tag == docker_full_name(job)
              id == 2 + Len(calls)
              out == IF already_built(job, tag) THEN "raise_human" ELSE o
          IN  /\ trace' = [trace EXCEPT ![w] =
                              Append(@, [slug |-> "docker_build", out |-> out])]
              /\ calls' = IF out = "raise_human" THEN calls
                          ELSE calls \o BuildCalls(w, job, tag)
              /\ images' = IF out = "ok" THEN ImagesAfterBuild(tag, id)
                           ELSE images
              /\ IF IsRaise(out) THEN Raised(w, out, "except")
                 ELSE IF out = "fail"
                 THEN Return(w, ("image_id" :> 0), "broken", TRUE, "False")
                 ELSE Continue(w, ("image_id" :> id), "docker_test")
    /\ UNCHANGED <<cfg, job_of, dvars, avars, bvars, svars, stages, stage_logs, worker_queue,
                   qcalls, qlimit, qerr, pool, uidx, clock>>

\* the daemon's build call, its stream and BuildStage.on_done; o is the
\* outcome of the call and of the stream
Build(w) ==
    /\ pc[w] = "docker_build_call"
    /\ \E o \in cfg.outcomes :
          LET job == Job(w)
              tag == docker_full_name(job)
              id == 2 + Len(calls)
          IN  /\ trace' = [trace EXCEPT ![w] =
                              Append(@, [slug |-> "docker_build", out |-> o])]
              /\ calls' = calls \o BuildCalls(w, job, tag)
              /\ images' = IF o = "ok" THEN ImagesAfterBuild(tag, id)
                           ELSE images
              /\ IF IsRaise(o) THEN Raised(w, o, "except")
                 ELSE IF o = "fail"
                 THEN Return(w, ("image_id" :> 0), "broken", TRUE, "False")
                 ELSE Continue(w, ("image_id" :> id), "docker_test")
    /\ UNCHANGED <<cfg, job_of, dvars, avars, bvars, svars, stages, stage_logs, worker_queue,
                   qcalls, qlimit, qerr, pool, uidx, clock>>

-----------------------------------------------------------------------------
(* TestStage, then the push and fetch stages *)

\* self.job.job_config.skip_tests: False unless the scenario sets it
skip_tests == "skip_tests" \in DOMAIN cfg /\ cfg.skip_tests

\* a test failure classified as an infrastructure failure
TestFailResult_Broken == "broken"

\* result when the test stage is falsy
TestFailResult == "fail"

\* result when the push stage is falsy
PushFailResult == "broken"

\* the test stage run without looking at its status
Test_Ungated(w) ==
    /\ pc[w] = "docker_test"
    /\ \E o \in cfg.outcomes :
          /\ Record(w, "docker_test", o)
          /\ IF IsRaise(o) THEN Raised(w, o, "except")
             ELSE /\ Commit(w, ("container_id" :> 1)
                                @@ ("exit_code" :> IF o = "ok" THEN 0 ELSE 1)
                                @@ Flush(w))
                  /\ pend' = [pend EXCEPT ![w] = NoChanges]
                  /\ pc' = [pc EXCEPT ![w] = "docker_push"]
                  /\ UNCHANGED <<exc, ret>>
    /\ UNCHANGED frame

\* container_id and exit_code are committed by the stage itself; with
\* skip_tests the runnable returns 0 at once and the job is left as it is
Test(w) ==
    /\ pc[w] = "docker_test"
    /\ \E o \in cfg.outcomes :
          /\ Record(w, "docker_test", IF skip_tests THEN "ok" ELSE o)
          /\ IF skip_tests THEN Continue(w, NoChanges, "docker_push")
             ELSE IF IsRaise(o) THEN Raised(w, o, "except")
             ELSE IF o = "fail"
             THEN Return(w, ("container_id" :> 1) @@ ("exit_code" :> 1),
                         TestFailResult, TRUE, "False")
             ELSE /\ Commit(w, ("container_id" :> 1) @@ ("exit_code" :> 0)
                                @@ Flush(w))
                  /\ pend' = [pend EXCEPT ![w] = NoChanges]
                  /\ pc' = [pc EXCEPT ![w] = "docker_push"]
                  /\ UNCHANGED <<exc, ret>>
    /\ UNCHANGED frame

\* the push stage calls the daemon only for a pushable job
PushCalls(w, job) ==
    IF pushable(job)
    THEN <<[op |-> "push", by |-> w, tag |-> docker_full_name(job)]>>
    ELSE <<>>

\* on a truthy push: self.result = 'success'; add; commit
Push(w) ==
    /\ pc[w] = "docker_push"
    /\ calls' = calls \o PushCalls(w, Job(w))
    /\ \E o \in cfg.outcomes :
          /\ Record(w, "docker_push", o)
          /\ IF IsRaise(o) THEN Raised(w, o, "except")
             ELSE IF o = "fail"
             THEN Return(w, NoChanges, PushFailResult, TRUE, "False")
             ELSE /\ Commit(w, ("result" :> "success") @@ Flush(w))
                  /\ pend' = [pend EXCEPT ![w] = NoChanges]
                  /\ pc' = [pc EXCEPT ![w] = "docker_fetch"]
                  /\ UNCHANGED <<exc, ret>>
    /\ UNCHANGED <<cfg, job_of, dvars, avars, bvars, svars, stage_logs, worker_queue, qcalls, qlimit, qerr, pool,
                   uidx, images, clock>>

\* docker_fetch.run(None); return True
Fetch(w) ==
    /\ pc[w] = "docker_fetch"
    /\ \E o \in cfg.outcomes :
          /\ Record(w, "docker_fetch", o)
          /\ IF IsRaise(o) THEN Raised(w, o, "except")
             ELSE /\ Commit(w, Flush(w))
                  /\ pend' = [pend EXCEPT ![w] = NoChanges]
                  /\ pc' = [pc EXCEPT ![w] = "external_status_complete"]
                  /\ ret' = [ret EXCEPT ![w] = "True"]
                  /\ UNCHANGED exc
    /\ UNCHANGED frame

-----------------------------------------------------------------------------
(* except Exception, the finally block, and Job._error_stage *)

\* message = str(ex) if ex.human_str, else traceback.format_exc()
ErrorMessage(e) == IF e = "raise_human" THEN "message" ELSE "traceback"

\* stage row added and committed, then the message written to its log
ErrorStage(w, stage_slug) ==
    /\ AddStage(w, stage_slug)
    /\ stage_logs' = Append(stage_logs, [slug |-> stage_slug,
                                         log |-> ErrorMessage(exc[w])])

\* except Exception: result = 'broken'; add; commit; _error_stage('error');
\* return False
Except(w) ==
    /\ pc[w] = "except"
    /\ Commit(w, ("result" :> "broken") @@ Flush(w))
    /\ pend' = [pend EXCEPT ![w] = NoChanges]
    /\ ErrorStage(w, "error")
    /\ exc' = [exc EXCEPT ![w] = "none"]
    /\ ret' = [ret EXCEPT ![w] = "False"]
    /\ pc' = [pc EXCEPT ![w] = "external_status_complete"]
    /\ UNCHANGED <<cfg, job_of, dvars, avars, bvars, svars, worker_queue, qcalls, qlimit, qerr, pool, trace, uidx, images,
                   calls, clock>>

\* finally: try: external_status_complete.run(0)
ExternalStatusComplete(w) ==
    /\ pc[w] = "external_status_complete"
    /\ \E o \in cfg.outcomes :
          /\ Record(w, "external_status_complete", o)
          /\ IF IsRaise(o) THEN Raised(w, o, "post_except")
             ELSE Continue(w, NoChanges, "cleanup")
    /\ UNCHANGED frame

\* cleanup.run(None)
Cleanup(w) ==
    /\ pc[w] = "cleanup"
    /\ \E o \in cfg.outcomes :
          /\ Record(w, "cleanup", o)
          /\ IF IsRaise(o) THEN Raised(w, o, "post_except")
             ELSE Continue(w, NoChanges, "complete")
    /\ UNCHANGED frame

\* the handler of the finally block doing what the handler of the try
\* block does
PostExcept_SetsBroken(w) ==
    /\ pc[w] = "post_except"
    /\ Commit(w, ("result" :> "broken") @@ Flush(w))
    /\ pend' = [pend EXCEPT ![w] = NoChanges]
    /\ ErrorStage(w, "post_error")
    /\ exc' = [exc EXCEPT ![w] = "none"]
    /\ pc' = [pc EXCEPT ![w] = "complete"]
    /\ UNCHANGED <<cfg, job_of, dvars, avars, bvars, svars, worker_queue, qcalls, qlimit, qerr, pool, trace, ret,
                   uidx, images, calls, clock>>

\* the handler of the finally block recording the error and re-raising,
\* so that the rest of the block is skipped
PostExcept_Reraise(w) ==
    /\ pc[w] = "post_except"
    /\ Commit(w, Flush(w))
    /\ pend' = [pend EXCEPT ![w] = NoChanges]
    /\ ErrorStage(w, "post_error")
    /\ pc' = [pc EXCEPT ![w] = "done"]
    /\ UNCHANGED <<cfg, job_of, dvars, avars, bvars, svars, worker_queue, qcalls, qlimit, qerr, pool, trace, exc,
                   ret, uidx, images, calls, clock>>

\* except Exception: _error_stage('post_error')
PostExcept(w) ==
    /\ pc[w] = "post_except"
    /\ Commit(w, Flush(w))
    /\ pend' = [pend EXCEPT ![w] = NoChanges]
    /\ ErrorStage(w, "post_error")
    /\ exc' = [exc EXCEPT ![w] = "none"]
    /\ pc' = [pc EXCEPT ![w] = "complete"]
    /\ UNCHANGED <<cfg, job_of, dvars, avars, bvars, svars, worker_queue, qcalls, qlimit, qerr, pool, trace, ret, uidx,
                   images, calls, clock>>

\* complete_ts assigned and the commit left out
Complete_Unsaved(w) ==
    /\ pc[w] = "complete"
    /\ Commit(w, Flush(w))
    /\ pend' = [pend EXCEPT ![w] = ("complete_ts" :> clock)]
    /\ clock' = clock + 1
    /\ pc' = [pc EXCEPT ![w] = "done"]
    /\ UNCHANGED <<cfg, job_of, dvars, avars, bvars, svars, stages, stage_logs, worker_queue, qcalls, qlimit, qerr,
                   pool, trace, exc, ret, uidx, images, calls>>

\* complete_ts = now; add; commit -- and _run_now returns
Complete(w) ==
    /\ pc[w] = "complete"
    /\ Commit(w, ("complete_ts" :> clock) @@ Flush(w))
    /\ pend' = [pend EXCEPT ![w] = NoChanges]
    /\ clock' = clock + 1
    /\ pc' = [pc EXCEPT ![w] = "done"]
    /\ UNCHANGED <<cfg, job_of, dvars, avars, bvars, svars, stages, stage_logs, worker_queue, qcalls, qlimit, qerr,
                   pool, trace, exc, ret, uidx, images, calls>>

-----------------------------------------------------------------------------
(* Job.docker_client *)

\* host strings of CONFIG.docker_hosts: a base URL, optionally followed by
\* client arguments
HostH == <<"h">>
HostH2 == <<"h", "2">>
HostHArgs == <<"h", " ", "c">>
HostG == <<"g">>
HostE == <<"e">>
NoHost == <<>>

\* host_str.startswith(prefix)
startswith(host_str, prefix) ==
    /\ Len(prefix) <= Len(host_str)
    /\ SubSeq(host_str, 1, Len(prefix)) = prefix

RECURSIVE FirstToken(_)
FirstToken(str) ==
    IF str = <<>> \/ Head(str) = " " THEN <<>>
    ELSE <<Head(str)>> \o FirstToken(Tail(str))

\* client_kwargs_from_config: the base URL is the first word of the host
\* string
client_kwargs_from_config(host_str) == [base_url |-> FirstToken(host_str)]

\* kwargs_from_env: base_url is there only when DOCKER_HOST is set
kwargs_from_env ==
    IF cfg.env_docker_host # NoHost
    THEN [base_url |-> cfg.env_docker_host]
    ELSE [tls |-> FALSE]

NoClient == [kind |-> "none"]

Raises(error) == [kind |-> "error", error |-> error]

\* the docker_client_args the branches of docker_client can end with, or
\* the error they raise: with a recorded host, the arguments of the last
\* host string of the pool that starts with it (none assigned when no host
\* string does); else the environment's; else those of any host string of
\* the pool
ClientArgs(job) ==
    LET hosts == cfg.docker_hosts
        matching == {i \in DOMAIN hosts :
                        startswith(hosts[i], job.docker_client_host)}
        last == CHOOSE i \in matching : \A k \in matching : k <= i
    IN  IF job.docker_client_host # NoHost
        THEN IF matching # {}
             THEN {client_kwargs_from_config(hosts[last])}
             ELSE {Raises("UnboundLocalError")}
        ELSE IF cfg.docker_use_env_vars
        THEN IF "base_url" \in DOMAIN kwargs_from_env
             THEN {kwargs_from_env}
             ELSE {Raises("KeyError")}
        ELSE {client_kwargs_from_config(hosts[i]) : i \in DOMAIN hosts}

\* docker.Client(**docker_client_args), made by process w at its n-th
\* access
NewClient(w, n, args) ==
    [kind |-> "client", base_url |-> args.base_url, by |-> w, n |-> n]

\* the property without the cache: every access resolves again
DockerClient_NoCache(w) ==
    /\ w \in pool
    /\ job_of[w] # 0
    /\ nacc[w] < MaxAccess
    /\ nacc' = [nacc EXCEPT ![w] = @ + 1]
    /\ \E args \in ClientArgs(Job(w)) :
          IF "base_url" \notin DOMAIN args
          THEN /\ got' = [got EXCEPT ![w] = args]
               /\ UNCHANGED <<jobs, pend, client>>
          ELSE /\ Commit(w, ("docker_client_host" :> args.base_url)
                                @@ Flush(w))
               /\ pend' = [pend EXCEPT ![w] = NoChanges]
               /\ client' = [client EXCEPT ![w] =
                                NewClient(w, nacc[w] + 1, args)]
               /\ got' = [got EXCEPT ![w] = client'[w]]
    /\ UNCHANGED <<cfg, avars, bvars, svars, stages, stage_logs, worker_queue, qcalls, qlimit,
                   qerr, pool, job_of, pc, trace, exc, ret, uidx, images,
                   calls, clock>>

\* one access to Job.docker_client in process w
DockerClient(w) ==
    /\ w \in pool
    /\ job_of[w] # 0
    /\ nacc[w] < MaxAccess
    /\ nacc' = [nacc EXCEPT ![w] = @ + 1]
    /\ IF client[w] # NoClient
       THEN /\ got' = [got EXCEPT ![w] = client[w]]
            /\ UNCHANGED <<jobs, pend, client>>
       ELSE \E args \in ClientArgs(Job(w)) :
               IF "base_url" \notin DOMAIN args
               THEN /\ got' = [got EXCEPT ![w] = args]
                    /\ UNCHANGED <<jobs, pend, client>>
               ELSE /\ Commit(w, ("docker_client_host" :> args.base_url)
                                     @@ Flush(w))
                    /\ pend' = [pend EXCEPT ![w] = NoChanges]
                    /\ client' = [client EXCEPT ![w] =
                                     NewClient(w, nacc[w] + 1, args)]
                    /\ got' = [got EXCEPT ![w] = client'[w]]
    /\ UNCHANGED <<cfg, avars, bvars, svars, stages, stage_logs, worker_queue, qcalls, qlimit,
                   qerr, pool, job_of, pc, trace, exc, ret, uidx, images,
                   calls, clock>>

-----------------------------------------------------------------------------
(* Model helpers: the provider state table, job slugs, OAuth token details
   and blob etags. Python's None is the string "None", or the empty
   sequence where the value is a sequence. *)

\* the state of the job pipeline, which the handlers and helpers leave alone
pvars == <<cfg, jobs, stages, stage_logs, worker_queue, qcalls, qlimit, qerr,
           pool, job_of, pc, pend, trace, exc, ret, uidx, images, calls,
           clock, dvars>>

NoCall == [fn |-> "none"]

\* STATE_MAP with the gitlab row a copy of the github row
STATE_MAP_GitlabAsGithub ==
    [github |-> [queued |-> "pending", running |-> "pending",
                 success |-> "success", fail |-> "failure",
                 broken |-> "error", None |-> "error"],
     gitlab |-> [queued |-> "pending", running |-> "pending",
                 success |-> "success", fail |-> "failure",
                 broken |-> "error", None |-> "error"]]

STATE_MAP ==
    [github |-> [queued |-> "pending", running |-> "pending",
                 success |-> "success", fail |-> "failure",
                 broken |-> "error", None |-> "error"],
     gitlab |-> [queued |-> "pending", running |-> "running",
                 success |-> "success", fail |-> "failed",
                 broken |-> "canceled", None |-> "canceled"]]

NoMsg == <<>>

\* Job.state_data_for, of a job whose Job.state is job_state: the pair
\* (service_state, state_msg); a message is the sequence of its two parts
state_data_for(job_state, service, state_arg, msg_arg) ==
    LET st == IF state_arg \in {"None", ""} THEN job_state ELSE state_arg
        in_map == service \in DOMAIN STATE_MAP
        in_row == in_map /\ st \in DOMAIN STATE_MAP[service] \ {"None"}
        service_state ==
            IF ~in_map THEN st
            ELSE IF in_row THEN STATE_MAP[service][st]
            ELSE STATE_MAP[service]["None"]
        msg1 == IF in_map /\ ~in_row
                THEN <<"is in an unknown state: '%s'", st>>
                ELSE msg_arg
        msg2 == IF msg1 # NoMsg THEN msg1
                ELSE IF st = "running" THEN <<"is in progress">>
                ELSE IF st = "success" THEN <<"completed successfully">>
                ELSE IF st = "fail" THEN <<"completed with failing tests">>
                ELSE IF st = "broken"
                     THEN <<"failed to complete due to an error">>
                ELSE NoMsg
    IN  [state |-> service_state,
         msg |-> IF msg2 # NoMsg THEN <<"The DockCI job %s">> \o msg2
                 ELSE NoMsg]

JobResults == {"None", "success", "fail", "broken"}

StateDataFor ==
    /\ call = NoCall
    /\ \E result \in JobResults, rows \in {<<>>, <<"git_prepare">>},
          service \in {"github", "gitlab", "bitbucket"},
          state_arg \in {"None", "", "queued", "running", "success", "fail",
                         "broken", "cancelled"},
          msg_arg \in {NoMsg, <<"was cancelled">>} :
          LET job_state == state([result |-> result], rows) IN
          /\ call' = [fn |-> "state_data_for", job_state |-> job_state,
                      service |-> service, state |-> state_arg,
                      msg |-> msg_arg]
          /\ res' = state_data_for(job_state, service, state_arg, msg_arg)
    /\ UNCHANGED <<pvars, bvars, svars, projects, builds, build_queue>>

HexDigits ==
    <<"0", "1", "2", "3", "4", "5", "6", "7", "8", "9", "a", "b", "c", "d",
      "e", "f">>

UpperHexDigits ==
    <<"0", "1", "2", "3", "4", "5", "6", "7", "8", "9", "A", "B", "C", "D",
      "E", "F">>

\* hex(n)[2:], for n >= 0
RECURSIVE hex(_)
hex(n) ==
    IF n < 16 THEN <<HexDigits[n + 1]>>
    ELSE hex(n \div 16) \o <<HexDigits[(n % 16) + 1]>>

\* Job.slug_from_id without the padding
slug_from_id_Unpadded(id_) == hex(id_)

\* Job.slug_from_id: '{:0>6}'.format(hex(id_)[2:])
slug_from_id(id_) ==
    LET h == hex(id_) IN
    IF Len(h) >= 6 THEN h ELSE [i \in 1..(6 - Len(h)) |-> "0"] \o h

\* the value of the digits s in base 16, -1 if one of them is no hex digit
RECURSIVE HexValue(_, _)
HexValue(s, acc) ==
    IF s = <<>> THEN acc
    ELSE IF \E d \in 1..16 : s[1] \in {HexDigits[d], UpperHexDigits[d]}
    THEN HexValue(Tail(s),
                  16 * acc + (CHOOSE d \in 1..16 :
                                 s[1] \in {HexDigits[d], UpperHexDigits[d]})
                           - 1)
    ELSE -1

\* Job.id_from_slug: int(slug, 16), -1 for a ValueError; the prefix 0x is
\* accepted and at least one digit is needed
id_from_slug(slug) ==
    LET digits == IF Len(slug) >= 2 /\ slug[1] = "0" /\ slug[2] \in {"x", "X"}
                  THEN SubSeq(slug, 3, Len(slug))
                  ELSE slug
    IN  IF digits = <<>> THEN -1 ELSE HexValue(digits, 0)

\* the ids of the model: the first MaxId ids and the ids around the powers
\* of 16, up to seven hex digits
Ids ==
    1..MaxId \cup {16^k + d : k \in 1..6, d \in {-1, 0, 1}}
             \cup {16^7 - 1}

\* the slugs of these ids, and slugs no id has: upper case, short,
\* prefixed, not hexadecimal, empty
SlugInputs ==
    {slug_from_id(i) : i \in Ids} \cup
    {<<"0", "0", "0", "0", "0", "A">>, <<"1", "f">>, <<"0", "x", "1", "f">>,
     <<"0", "0", "0", "0", "0", "g">>, <<>>}

SlugFromId ==
    /\ call = NoCall
    /\ \E id_ \in Ids :
          /\ call' = [fn |-> "slug_from_id", id |-> id_]
          /\ res' = [slug |-> slug_from_id(id_),
                     back |-> id_from_slug(slug_from_id(id_))]
    /\ UNCHANGED <<pvars, bvars, svars, projects, builds, build_queue>>

IdFromSlug ==
    /\ call = NoCall
    /\ \E slug \in SlugInputs :
          /\ call' = [fn |-> "id_from_slug", slug |-> slug]
          /\ res' = [id |-> id_from_slug(slug),
                     back |-> IF id_from_slug(slug) >= 0
                              THEN slug_from_id(id_from_slug(slug))
                              ELSE <<>>]
    /\ UNCHANGED <<pvars, bvars, svars, projects, builds, build_queue>>

\* an OAuthToken: key, secret, scope, and its user's primary email
Tokens(values) ==
    [key : values, secret : values, scope : values,
     user : {"None", "1@test.com", "2@test.com"}]

\* OAuthToken.update_details_from without the cross-user check
update_details_from_Unchecked(self, other) ==
    [raised |-> "None",
     self |-> [a \in DOMAIN self |->
                  IF a # "user" /\ other[a] # "None" THEN other[a]
                  ELSE self[a]]]

\* OAuthToken.update_details_from: what it raised, and the receiver after
update_details_from(self, other) ==
    IF ~(\/ self.user = "None"
         \/ other.user = "None"
         \/ self.user = other.user)
    THEN [raised |-> "ValueError", self |-> self]
    ELSE [raised |-> "None",
          self |-> [a \in DOMAIN self |->
                       IF a # "user" /\ other[a] # "None" THEN other[a]
                       ELSE self[a]]]

UpdateDetailsFrom ==
    /\ call = NoCall
    /\ \E self \in Tokens({"None", "otherkey"}),
          other \in Tokens({"None", "", "basekey"}) :
          /\ call' = [fn |-> "update_details_from", self |-> self,
                      other |-> other]
          /\ res' = update_details_from(self, other)
    /\ UNCHANGED <<pvars, bvars, svars, projects, builds, build_queue>>

Front(s) == SubSeq(s, 1, Len(s) - 1)

\* the while loop of FilesystemBlob.from_files: the bytes handed to
\* file_hash.update, chunk by chunk, until a chunk comes short
RECURSIVE ReadChunks(_, _)
ReadChunks(rest, fed) ==
    LET n == IF Len(rest) < CHUNK_SIZE THEN Len(rest) ELSE CHUNK_SIZE
        chunk == SubSeq(rest, 1, n)
    IN  IF Len(chunk) = CHUNK_SIZE
        THEN ReadChunks(SubSeq(rest, n + 1, Len(rest)), fed \o chunk)
        ELSE fed \o chunk

\* hashlib.sha1(data).digest(), taken to be free of collisions: the digest
\* stands for the data it was computed from
sha1(data) == [sha1 |-> data]

\* the order of two digests as byte strings, which is not the order of the
\* contents they digest: contents are numbered and the numbers scrambled
RECURSIVE ContentNumber(_)
ContentNumber(data) ==
    IF data = <<>> THEN 0
    ELSE 3 * ContentNumber(Front(data)) + data[Len(data)] + 1

DigestLess(a, b) ==
    (ContentNumber(a.sha1) * 7) % 41 < (ContentNumber(b.sha1) * 7) % 41

\* FilesystemBlob.from_files hashing the digests in the order of the files
from_files_Unsorted(files) ==
    sha1([i \in DOMAIN files |-> sha1(ReadChunks(files[i].content, <<>>))])

\* FilesystemBlob.from_files: the etag
from_files(files) ==
    LET digests == [i \in DOMAIN files |->
                       sha1(ReadChunks(files[i].content, <<>>))]
    IN  sha1(SortSeq(digests, DigestLess))

FileContents == UNION {[1..n -> {0, 1}] : n \in 0..2}

Files == [path : {"a", "dir/b"}, content : FileContents]

\* lists of files of one file system: a path has one content
FileLists ==
    {files \in UNION {[1..n -> Files] : n \in 0..MaxFiles} :
        \A i, j \in DOMAIN files :
            files[i].path = files[j].path
                => files[i].content = files[j].content}

FromFiles ==
    /\ call = NoCall
    /\ \E files \in FileLists :
          /\ call' = [fn |-> "from_files", files |-> files]
          /\ res' = [etag |-> from_files(files)]
    /\ UNCHANGED <<pvars, bvars, svars, projects, builds, build_queue>>

-----------------------------------------------------------------------------
(* The new-build view with its GitHub signature check, and the project API.
   A header value is a sequence of tokens: hash type names, "=" and
   signatures. *)

\* hmac.new(secret, data, hashlib.sha1).hexdigest(): one signature for each
\* secret and body
hexdigest(secret, data) == <<"hmac-sha1", secret, data>>

Secrets == {"s1", "s2"}
Bodies == {"b1", "b2"}

\* signatures a sender can put in the header
Signatures ==
    {hexdigest(s, b) : s \in Secrets, b \in Bodies} \cup {<<"0000">>}

\* X-Hub-Signature values: type=signature, and values that str.split('=')
\* does not cut in two
SignatureHeaders ==
    {<<<<t>>, <<"=">>, s>> : t \in {"sha1", "SHA1", "md5"}, s \in Signatures}
    \cup {<<<<"sha1">>>>,
          <<<<"sha1">>, <<"=">>, hexdigest("s1", "b1"), <<"=">>, <<"x">>>>}

\* str.split('=')
RECURSIVE split(_)
split(value) ==
    IF \A i \in DOMAIN value : value[i] # <<"=">> THEN <<value>>
    ELSE LET i == CHOOSE k \in DOMAIN value :
                      /\ value[k] = <<"=">>
                      /\ \A j \in 1..(k - 1) : value[j] # <<"=">>
         IN  <<SubSeq(value, 1, i - 1)>>
                 \o split(SubSeq(value, i + 1, Len(value)))

\* str.lower()
lower(value) ==
    [i \in DOMAIN value |->
        IF value[i] = <<"SHA1">> THEN <<"sha1">> ELSE value[i]]

\* is_valid_github without the comparison of the signatures
is_valid_github_TypeOnly(secret, request) ==
    IF ~request.has_signature THEN "False"
    ELSE LET parts == split(request.signature) IN
         IF Len(parts) # 2 THEN "ValueError"
         ELSE IF lower(parts[1]) # <<<<"sha1">>>> THEN "False"
         ELSE "True"

\* is_valid_github: "True", "False", or the ValueError of the unpacking
is_valid_github(secret, request) ==
    IF ~request.has_signature THEN "False"
    ELSE LET parts == split(request.signature) IN
         IF Len(parts) # 2 THEN "ValueError"
         ELSE IF lower(parts[1]) # <<<<"sha1">>>> THEN "False"
         ELSE IF parts[2] = <<hexdigest(secret, request.data)>> THEN "True"
         ELSE "False"

\* POST requests to /projects/<slug>/builds/new: the form of a user, logged
\* in or not, and GitHub's hooks, which come without a session; valid says
\* whether Build.validate accepts the build
Requests ==
    {r \in [logged_in : BOOLEAN,
            event : {"None", "push", "ping"},
            has_signature : BOOLEAN,
            signature : SignatureHeaders,
            data : Bodies,
            valid : BOOLEAN] :
        /\ r.event # "None" => ~r.logged_in
        /\ r.event = "None" => ~r.has_signature
        /\ r.has_signature \/ r.signature = <<<<"sha1">>>>}

\* the project of the request: missing, or with its github_secret
RequestProjects ==
    [exists : BOOLEAN, github_secret : {"None", "", "s1"}]

\* the HTTP status of build_new_view for a POST request
new_build_status(project, request) ==
    IF request.event = "None" /\ ~request.logged_in THEN 401
    ELSE IF ~project.exists THEN 404
    ELSE IF request.event # "None"
    THEN IF project.github_secret \in {"None", ""} THEN 403
         ELSE LET ok == is_valid_github(project.github_secret, request) IN
              IF ok = "ValueError" THEN 500
              ELSE IF ok = "False" THEN 403
              ELSE IF request.event # "push" THEN 501
              ELSE IF ~request.valid THEN 400
              ELSE 201
    ELSE IF ~request.valid THEN 200
         ELSE 303

\* build_new_view for a POST request: build.save() and build.queue() are
\* reached with the statuses 201 and 303 only
BuildNewView ==
    /\ Len(builds) < MaxBuilds
    /\ \E project \in RequestProjects, request \in Requests :
          /\ project.exists \/ project.github_secret = "None"
          /\ call' = [fn |-> "build_new_view", project |-> project,
                      request |-> request]
          /\ res' = [status |-> new_build_status(project, request)]
          /\ IF res'.status \in {201, 303}
             THEN /\ builds' = Append(builds, request.data)
                  /\ build_queue' = Append(build_queue, request.data)
             ELSE UNCHANGED <<builds, build_queue>>
    /\ UNCHANGED <<pvars, bvars, svars, projects>>

\* the registries of the deployment (AuthenticatedRegistry.base_name)
Registries == {"r"}

NoProject == [exists |-> FALSE, utility |-> FALSE, target_registry |-> "None"]

\* DOCKER_REPO_RE.match(value) is not None
docker_repo_field(value) ==
    LET alnum == Digits \cup {"a", "b", "p", "q", "z"} IN
    /\ value # <<>>
    /\ \A i \in DOMAIN value : value[i] \in alnum \cup {".", "_", "-"}
    /\ value[1] \in alnum
    /\ value[Len(value)] \in alnum
    /\ \A i \in 1..(Len(value) - 1) :
          value[i] \in alnum \/ value[i + 1] \in alnum

\* the arguments the two parsers know
PROJECT_EDIT_PARSER == {"name", "repo", "github_secret", "target_registry"}

PROJECT_NEW_PARSER ==
    PROJECT_EDIT_PARSER \cup {"utility", "gitlab_repo_id", "github_repo_id"}

\* the arguments of a request: a value, or "ABSENT"
ProjectArgs ==
    [utility : {"ABSENT", "true", "false"},
     target_registry : {"ABSENT", "", "r", "x"}]

Supplied(args) == {a \in DOMAIN args : args[a] # "ABSENT"}

\* ensure_target_registry letting a blank value through
ensure_target_registry_Blank(required, args) ==
    args.target_registry = "ABSENT" => ~required

\* ensure_target_registry: TRUE unless it aborts with 400
ensure_target_registry(required, args) ==
    IF args.target_registry = "ABSENT" THEN ~required
    ELSE args.target_registry # ""

\* set_target_registry: what args['target_registry'] holds afterwards
set_target_registry(args) ==
    IF args.target_registry = "ABSENT" THEN "ABSENT"
    ELSE IF args.target_registry = "" THEN "None"
    ELSE IF args.target_registry \in Registries THEN args.target_registry
    ELSE "NoModelError"

\* ProjectDetail.put
ProjectPut ==
    /\ \E project_slug \in {ProjectSlug, <<"P">>, <<"p", "-">>},
          args \in ProjectArgs :
          /\ call' = [fn |-> "put", project_slug |-> project_slug,
                      args |-> args]
          /\ IF ~docker_repo_field(project_slug)
             THEN res' = [status |-> 400] /\ UNCHANGED projects
             ELSE IF ~({"utility", "target_registry"} \subseteq Supplied(args)
                       /\ Supplied(args) \subseteq PROJECT_NEW_PARSER)
             THEN res' = [status |-> 400] /\ UNCHANGED projects
             ELSE IF args.utility = "true"
                     /\ ~ensure_target_registry(TRUE, args)
             THEN res' = [status |-> 400] /\ UNCHANGED projects
             ELSE IF set_target_registry(args) = "NoModelError"
             THEN res' = [status |-> 404] /\ UNCHANGED projects
             ELSE IF projects[project_slug].exists
             THEN res' = [status |-> 400] /\ UNCHANGED projects
             ELSE /\ res' = [status |-> 200]
                  /\ projects' =
                         [projects EXCEPT ![project_slug] =
                             [exists |-> TRUE,
                              utility |-> args.utility = "true",
                              target_registry |-> set_target_registry(args)]]
    /\ UNCHANGED <<pvars, bvars, svars, builds, build_queue>>

\* ProjectDetail.post
ProjectPost ==
    /\ \E project_slug \in {ProjectSlug}, args \in ProjectArgs :
          LET project == projects[project_slug] IN
          /\ call' = [fn |-> "post", project_slug |-> project_slug,
                      args |-> args]
          /\ IF ~project.exists
             THEN res' = [status |-> 404] /\ UNCHANGED projects
             ELSE IF ~(Supplied(args) \subseteq PROJECT_EDIT_PARSER)
             THEN res' = [status |-> 400] /\ UNCHANGED projects
             ELSE IF (IF args.utility # "ABSENT" THEN args.utility = "true"
                      ELSE project.utility)
                     /\ ~ensure_target_registry(FALSE, args)
             THEN res' = [status |-> 400] /\ UNCHANGED projects
             ELSE IF set_target_registry(args) = "NoModelError"
             THEN res' = [status |-> 404] /\ UNCHANGED projects
             ELSE /\ res' = [status |-> 200]
                  /\ projects' =
                         [projects EXCEPT ![project_slug] =
                             [exists |-> TRUE,
                              utility |->
                                  IF args.utility # "ABSENT"
                                  THEN args.utility = "true"
                                  ELSE project.utility,
                              target_registry |->
                                  IF set_target_registry(args) = "ABSENT"
                                  THEN project.target_registry
                                  ELSE set_target_registry(args)]]
    /\ UNCHANGED <<pvars, bvars, svars, builds, build_queue>>

\* no request served and no helper called yet: the tables are empty
IdleHandlers ==
    /\ call = NoCall
    /\ res = NoCall
    /\ projects = [s \in {ProjectSlug} |-> NoProject]
    /\ builds = <<>>
    /\ build_queue = <<>>

-----------------------------------------------------------------------------
(* Build._run_now (src/dockci/models/build.py): the stages of a build, each
   started by Build._stage *)

BuildStages ==
    <<"git_prepare", "git_info", "git_changes", "git_tag",
      "docker_provision", "docker_build", "docker_test", "docker_push",
      "docker_fetch", "cleanup">>

NewBuild ==
    [start_ts |-> 0, complete_ts |-> 0, result |-> "None",
     build_stage_slugs |-> <<>>]

IdleBuild ==
    /\ build = NewBuild
    /\ build_file = NewBuild
    /\ bpc = [at |-> "idle", stage |-> 0]
    /\ bevents = <<>>
    /\ workdir = "none"

\* self.start_ts = datetime.now(); self.save(); then the try block is
\* entered, and in it the with block that creates the temporary directory
BuildRunNow ==
    /\ bpc.at = "idle"
    /\ build' = [build EXCEPT !.start_ts = clock]
    /\ build_file' = build'
    /\ bpc' = [at |-> "_stage", stage |-> 1]
    /\ workdir' = "held"
    /\ UNCHANGED <<pvars, avars, svars, bevents>>

\* Build._stage appending the slug without self.save()
Build_stage_Unsaved ==
    /\ bpc.at = "_stage"
    /\ build' = [build EXCEPT
                    !.build_stage_slugs = Append(@, BuildStages[bpc.stage])]
    /\ bevents' = Append(bevents, [slug |-> BuildStages[bpc.stage],
                                   out |-> "started"])
    /\ bpc' = [bpc EXCEPT !.at = "run"]
    /\ UNCHANGED <<pvars, avars, svars, build_file, workdir>>

\* Build._stage up to stage.run(): the slug is appended and the build saved
Build_stage ==
    /\ bpc.at = "_stage"
    /\ build' = [build EXCEPT
                    !.build_stage_slugs = Append(@, BuildStages[bpc.stage])]
    /\ build_file' = build'
    /\ bevents' = Append(bevents, [slug |-> BuildStages[bpc.stage],
                                   out |-> "started"])
    /\ bpc' = [bpc EXCEPT !.at = "run"]
    /\ UNCHANGED <<pvars, avars, svars, workdir>>

\* the finally block after the cleanup stage: complete_ts = now; save()
BuildComplete(b) ==
    /\ build' = [b EXCEPT !.complete_ts = clock + 1]
    /\ build_file' = build'
    /\ bpc' = [at |-> "done", stage |-> 0]
    /\ UNCHANGED workdir

\* control leaves the with block, by return, by an exception or at its
\* end: TemporaryDirectory.__exit__ removes the directory
LeaveWith == workdir' = "released"

\* self.result = result; return: on to the cleanup stage of the finally
\* block
BuildReturn(result) ==
    /\ build' = [build EXCEPT !.result = result]
    /\ bpc' = [at |-> "_stage", stage |-> Len(BuildStages)]
    /\ LeaveWith
    /\ UNCHANGED build_file

\* Build._error_stage: the slug of the error stage is appended and the
\* build saved
Build_error_stage(b, stage_slug) ==
    [b EXCEPT !.build_stage_slugs = Append(@, stage_slug)]

\* stage.run() and what Build._run_now does with the stage's return code
\* or exception
StageRun ==
    /\ bpc.at = "run"
    /\ \E o \in {"ok", "fail", "raise"} :
          LET slug == BuildStages[bpc.stage] IN
          /\ bevents' = [bevents EXCEPT ![Len(bevents)].out = o]
          /\ IF slug = "cleanup"
             THEN IF o = "raise"
                  THEN BuildComplete(Build_error_stage(build,
                                                       "cleanup_error"))
                  ELSE BuildComplete(build)
             ELSE IF o = "raise"
             THEN /\ build' = Build_error_stage(
                                  [build EXCEPT !.result = "error"], "error")
                  /\ build_file' = build'
                  /\ bpc' = [at |-> "_stage", stage |-> Len(BuildStages)]
                  /\ LeaveWith
             ELSE IF slug \in {"git_tag", "docker_fetch"} \/ o = "ok"
             THEN IF slug = "docker_push"
                  THEN /\ build' = [build EXCEPT !.result = "success"]
                       /\ build_file' = build'
                       /\ bpc' = [at |-> "_stage", stage |-> bpc.stage + 1]
                       /\ UNCHANGED workdir
                  ELSE /\ bpc' = [at |-> "_stage", stage |-> bpc.stage + 1]
                       /\ IF slug = "docker_fetch" THEN LeaveWith
                          ELSE UNCHANGED workdir
                       /\ UNCHANGED <<build, build_file>>
             ELSE IF slug = "docker_test" THEN BuildReturn("fail")
             ELSE BuildReturn("error")
    /\ UNCHANGED <<pvars, avars, svars>>

-----------------------------------------------------------------------------
(* The stage logs of a build, and build_output_view.loader
   (src/dockci/views/build.py), the generator that streams one of them *)

\* the number of bytes the stages of one build write, all logs together
MaxLog == 2
\* the size of handle.read(1024), scaled down to the logs of the model
ReadSize == 1

NoLogs == [slug \in Range(BuildStages) |-> <<>>]

RECURSIVE LogBytes(_)
\* the number of bytes in the logs of the first n stages
LogBytes(n) ==
    IF n = 0 THEN 0 ELSE Len(log[BuildStages[n]]) + LogBytes(n - 1)

\* the stage that is running writes a byte to its log and flushes it
StageWrite ==
    /\ bpc.at = "run"
    /\ LogBytes(Len(BuildStages)) < MaxLog
    /\ log' = [log EXCEPT ![BuildStages[bpc.stage]] =
                  Append(@, LogBytes(Len(BuildStages)) + 1)]
    /\ UNCHANGED <<pvars, avars, bvars, loader, test>>

\* a Build object that has not read its file yet
NotLoaded == [loaded |-> FALSE, build |-> NewBuild]

\* Build.load(): the attributes are those of the file
Loaded == [loaded |-> TRUE, build |-> build_file]

NoLoader ==
    [at |-> "idle", filename |-> "None", running |-> FALSE, pos |-> 0,
     data |-> <<>>, view |-> NotLoaded, sent |-> <<>>]

\* Build.state
build_state(b) ==
    IF b.result # "None" THEN b.result
    ELSE IF b.build_stage_slugs # <<>> THEN "running"
    ELSE "queued"

\* build_output_view: the file exists once its stage was started; the
\* response is the generator, and running records whether the request was
\* made while the stage was running
BuildOutputView ==
    /\ loader.at = "idle"
    /\ \E filename \in Range(BuildStages) :
          /\ \E i \in DOMAIN bevents : bevents[i].slug = filename
          /\ loader' = [NoLoader EXCEPT
                           !.at = "read",
                           !.filename = filename,
                           !.running = /\ bpc.at = "run"
                                       /\ BuildStages[bpc.stage] = filename]
    /\ UNCHANGED <<pvars, avars, bvars, log, test>>

\* data = handle.read(1024); yield data
LoaderRead ==
    /\ loader.at = "read"
    /\ LET file == log[loader.filename]
           rest == Len(file) - loader.pos
           n == IF rest < ReadSize THEN rest ELSE ReadSize
           data == SubSeq(file, loader.pos + 1, loader.pos + n)
       IN  loader' = [loader EXCEPT !.data = data,
                                    !.pos = @ + n,
                                    !.sent = @ \o data,
                                    !.at = "check"]
    /\ UNCHANGED <<pvars, avars, bvars, log, test>>

\* is_live_log = (build.state == 'running' and
\*                filename == "%s.log" % build.build_stage_slugs[-1]);
\* the first look at an attribute of the build loads it. Live: go on to
\* wait; not live: return on an empty read, read again otherwise
LoaderCheck ==
    /\ loader.at = "check"
    /\ LET view == IF loader.view.loaded THEN loader.view ELSE Loaded
           slugs == view.build.build_stage_slugs
           is_live_log == /\ build_state(view.build) = "running"
                          /\ loader.filename = slugs[Len(slugs)]
       IN  loader' = [loader EXCEPT
                         !.view = view,
                         !.at = IF is_live_log THEN "wait"
                                ELSE IF Len(loader.data) = 0 THEN "ended"
                                ELSE "read"]
    /\ UNCHANGED <<pvars, avars, bvars, log, test>>

\* select.select((handle,), (), (), 2); build.load()
LoaderWait ==
    /\ loader.at = "wait"
    /\ loader' = [loader EXCEPT !.view = Loaded, !.at = "read"]
    /\ UNCHANGED <<pvars, avars, bvars, log, test>>

-----------------------------------------------------------------------------
(* Job.send_external_status (src/dockci/models/job.py) and
   ExternalStatusStage (src/dockci/models/job_meta/stages_main.py) *)

Services == <<"github", "gitlab">>

\* nothing is posted
NoPayload == [keys |-> {}, state |-> "None", description |-> NoMsg]

\* Job.send_external_status, of a job whose Job.state is job_state and whose
\* project holds an OAuth token of the service token; response is the HTTP
\* status the provider answers a POST with. extra_dict is assigned only
\* when there is a state message; the token is checked before the argument
\* list of the post is built
send_external_status(job_state, service, token, state_arg, msg_arg, response) ==
    LET data == state_data_for(job_state, service, state_arg, msg_arg)
        bound == data.msg # NoMsg
    IN  IF token # service
        THEN [raised |-> "InvalidServiceTypeError", status |-> 0,
              payload |-> NoPayload]
        ELSE IF ~bound
        THEN [raised |-> "UnboundLocalError", status |-> 0,
              payload |-> NoPayload]
        ELSE [raised |-> "None", status |-> response,
              payload |-> [keys |-> {"state", "target_url", "context",
                                     "description"},
                           state |-> data.state,
                           description |-> data.msg]]

\* the HTTP statuses a provider answers with
Responses == {201, 422}

SendExternalStatus ==
    /\ call = NoCall
    /\ test.at = "idle"
    /\ \E result \in JobResults, rows \in {<<>>, <<"git_prepare">>},
          service \in Range(Services), token \in Range(Services),
          response \in Responses :
          LET job_state == state([result |-> result], rows) IN
          /\ call' = [fn |-> "send_external_status", job_state |-> job_state,
                      service |-> service, token |-> token,
                      response |-> response]
          /\ res' = send_external_status(job_state, service, token, "None",
                                         NoMsg, response)
    /\ UNCHANGED <<pvars, bvars, svars, projects, builds, build_queue>>

\* nothing was sent yet
NoneSent == [attempted |-> <<>>, posted |-> <<>>, raised |-> "None",
             success |-> "None"]

RECURSIVE SendAll(_, _, _, _, _)
\* the loop of ExternalStatusStage.runnable over externals: each provider
\* is handed to _send_gitserv_status_stage, which calls the send method and
\* gives True for a 201; an exception of the send method ends the loop and
\* the stage
SendAll(externals, job_state, token, responses, acc) ==
    IF externals = <<>> \/ acc.raised # "None" THEN acc
    ELSE LET service == Head(externals)
             sent == send_external_status(job_state, service, token, "None",
                                          NoMsg, responses[service])
             done == sent.raised = "None" /\ sent.status = 201
         IN  SendAll(Tail(externals), job_state, token, responses,
                     [attempted |-> Append(acc.attempted, service),
                      posted |-> IF sent.raised = "None"
                                 THEN Append(acc.posted, service)
                                 ELSE acc.posted,
                      raised |-> sent.raised,
                      success |-> IF sent.raised # "None" THEN acc.success
                                  ELSE IF acc.success = "False" \/ ~done
                                  THEN "False"
                                  ELSE "True"])

\* ExternalStatusStage.runnable: externals are the providers whose repo id
\* is not None, in the order the dict gives them; the status is 0 when
\* success is True, 1 when it is False or None
runnable(project, order, job_state, responses) ==
    LET externals == SelectSeq(order, LAMBDA s : project[s] # "None")
        sent == SendAll(externals, job_state, project.token, responses,
                        NoneSent)
    IN  [attempted |-> sent.attempted, posted |-> sent.posted,
         raised |-> sent.raised,
         status |-> IF sent.success = "True" THEN 0 ELSE 1]

\* the projects a status stage runs for: repo ids set or None, and the one
\* OAuth token of the project
StatusProjects ==
    [github : {"None", "g/r"}, gitlab : {"None", "7"},
     token : Range(Services)]

\* the stage's own row exists when the runnable runs: the job is 'running'
\* or has its result
ExternalStatusRunnable ==
    /\ call = NoCall
    /\ test.at = "idle"
    /\ \E project \in StatusProjects,
          order \in {Services, <<"gitlab", "github">>},
          job_state \in {"running", "success", "fail", "broken"},
          responses \in [Range(Services) -> Responses] :
          /\ call' = [fn |-> "ExternalStatusStage.runnable",
                      project |-> project, order |-> order,
                      job_state |-> job_state, responses |-> responses]
          /\ res' = runnable(project, order, job_state, responses)
    /\ UNCHANGED <<pvars, bvars, svars, projects, builds, build_queue>>

-----------------------------------------------------------------------------
(* BuildStage.on_done (stages_main.py), on the line the Docker stage kept
   from the daemon's build stream *)

\* the longest build stream
MaxStream == 3

\* lines of a build stream: the empty line, or a JSON object given as its
\* key followed by the parts of its value
BuildLines ==
    {<<>>,
     <<"stream", "Step 1 : FROM scratch">>,
     <<"stream", "Successfully built ", "i1">>,
     <<"stream", "Successfully built ", "i2">>,
     <<"errorDetail", "no such file">>}

\* built_docker_image_id(data): the image id of a 'Successfully built <id>'
\* stream message, None for any other object
built_docker_image_id(data) ==
    IF Len(data) = 3 /\ data[1] = "stream" /\ data[2] = "Successfully built "
    THEN data[3]
    ELSE "None"

RECURSIVE FinalLine(_)
\* the line the Docker stage hands to on_done once the stream is exhausted:
\* the final non-empty line, the empty line when there is none
FinalLine(stream) ==
    IF stream = <<>> THEN <<>>
    ELSE IF stream[Len(stream)] # <<>> THEN stream[Len(stream)]
    ELSE FinalLine(Front(stream))

\* on_done taking the end of a stream without an error for success
on_done_NoError(image_id, line) ==
    IF line # <<>>
    THEN [status |-> IF line[1] = "stream" THEN 0 ELSE 1,
          image_id |-> built_docker_image_id(line)]
    ELSE [status |-> 1, image_id |-> image_id]

\* BuildStage.on_done, of a job whose image id is image_id: the status
\* returned and the job's image id afterwards
on_done(image_id, line) ==
    IF line # <<>>
    THEN [status |-> IF built_docker_image_id(line) # "None" THEN 0 ELSE 1,
          image_id |-> built_docker_image_id(line)]
    ELSE [status |-> 1, image_id |-> image_id]

Streams == UNION {[1 .. n -> BuildLines] : n \in 0 .. MaxStream}

BuildOnDone ==
    /\ call = NoCall
    /\ test.at = "idle"
    /\ \E stream \in Streams, image_id \in {"None", "i0"} :
          /\ call' = [fn |-> "BuildStage.on_done", stream |-> stream,
                      image_id |-> image_id]
          /\ res' = on_done(image_id, FinalLine(stream))
    /\ UNCHANGED <<pvars, bvars, svars, projects, builds, build_queue>>

-----------------------------------------------------------------------------
(* Job.changed_result (job.py) and Project.latest_job_ancestor
   (project.py) *)

\* def latest_job_ancestor(self, workdir, commit, passed=None,
\*                         versioned=None)
latest_job_ancestor_params == {"workdir", "commit", "passed", "versioned"}

\* self.project.latest_job_ancestor(workdir, self.commit, complete=True):
\* a keyword that is not a parameter is a TypeError; found is the job
\* the lookup gives otherwise, None when there is none
latest_job_ancestor(keywords, found) ==
    IF keywords \subseteq latest_job_ancestor_params
    THEN [raised |-> "None", job |-> found]
    ELSE [raised |-> "TypeError", job |-> "None"]

\* no ancestor job
NoJob == [id |-> 0, result |-> "None"]

\* Job.changed_result(workdir), workdir_ here, of a job with the given result and
\* ancestor_job; found is what a lookup of a completed ancestor gives
changed_result(result, ancestor_job, workdir_, found) ==
    IF result = "None" THEN "None"
    ELSE IF ancestor_job = NoJob THEN "True"
    ELSE IF ancestor_job.result = "None" /\ workdir_ = "None" THEN "True"
    ELSE LET looked_up ==
                 IF ancestor_job.result = "None"
                 THEN latest_job_ancestor({"complete"}, found)
                 ELSE [raised |-> "None", job |-> ancestor_job]
         IN  IF looked_up.raised # "None" THEN looked_up.raised
             ELSE IF looked_up.job = NoJob THEN "True"
             ELSE IF looked_up.job.result # result THEN "True"
             ELSE "False"

\* the jobs an ancestor can be
AncestorJobs ==
    {NoJob} \cup {[id |-> i, result |-> r] : i \in {1, 2}, r \in JobResults}

ChangedResult ==
    /\ call = NoCall
    /\ test.at = "idle"
    /\ \E result \in JobResults, ancestor_job \in AncestorJobs,
          workdir_ \in {"None", "/tmp/w"},
          found \in {j \in AncestorJobs : j = NoJob \/ j.result # "None"} :
          /\ call' = [fn |-> "changed_result", result |-> result,
                      ancestor_job |-> ancestor_job, workdir |-> workdir_,
                      found |-> found]
          /\ res' = [changed |-> changed_result(result, ancestor_job, workdir_, found)]
    /\ UNCHANGED <<pvars, bvars, svars, projects, builds, build_queue>>

-----------------------------------------------------------------------------
(* TestStage (stages_main.py): runnable, runnable_docker and on_done, one
   daemon call after the other. A container id of 0 and an exit code of -1
   stand for None. *)

\* the exit codes a test container ends with
ExitCodes == {0, 1, 137}

NoTest ==
    [at |-> "idle", skip_tests |-> FALSE, exit |-> 0, calls |-> <<>>,
     job |-> [container_id |-> 0, exit_code |-> -1],
     row |-> [container_id |-> 0, exit_code |-> -1],
     status |-> -1]

\* the daemon call op made by the stage; ok is whether the daemon served it,
\* the stage raising what the client raised otherwise
DaemonCall(op, ok, next) ==
    [test EXCEPT !.calls = Append(@, op),
                 !.at = IF ok THEN next ELSE "raised"]

\* TestStage.runnable: with skip_tests a line is written to the log and the
\* status is 0; otherwise DockerStage.runnable takes over. exit is the code
\* the container will end with
TestRunnable ==
    /\ call = NoCall
    /\ test.at = "idle"
    /\ \E skip \in BOOLEAN, exit \in ExitCodes :
          test' = [test EXCEPT !.skip_tests = skip,
                               !.exit = exit,
                               !.status = IF skip THEN 0 ELSE @,
                               !.at = IF skip THEN "done" ELSE "create"]
    /\ UNCHANGED <<pvars, avars, bvars, log, loader>>

\* container_details = create_container(image_id, 'ci');
\* self.job.container_id = container_details['Id']; add; commit
TestCreate ==
    /\ test.at = "create"
    /\ \E ok \in BOOLEAN :
          LET called == DaemonCall("create_container", ok, "attach") IN
          test' = IF ok
                  THEN [called EXCEPT !.job.container_id = 1,
                                      !.row.container_id = 1]
                  ELSE called
    /\ UNCHANGED <<pvars, avars, bvars, log, loader>>

\* stream = attach(container_id, stream=True)
TestAttach ==
    /\ test.at = "attach"
    /\ \E ok \in BOOLEAN : test' = DaemonCall("attach", ok, "start")
    /\ UNCHANGED <<pvars, avars, bvars, log, loader>>

\* start(container_id, links=[...]); return stream
TestStart ==
    /\ test.at = "start"
    /\ \E ok \in BOOLEAN : test' = DaemonCall("start", ok, "stream")
    /\ UNCHANGED <<pvars, avars, bvars, log, loader>>

\* on_done giving True for exit code 0 and False otherwise, as its
\* docstring says
TestOnDone_Bool ==
    /\ test.at = "stream"
    /\ \E ok \in BOOLEAN :
          LET called == DaemonCall("inspect_container", ok, "done") IN
          test' = IF ok
                  THEN [called EXCEPT !.job.exit_code = test.exit,
                                      !.row.exit_code = test.exit,
                                      !.status = IF test.exit = 0 THEN 1
                                                 ELSE 0]
                  ELSE called
    /\ UNCHANGED <<pvars, avars, bvars, log, loader>>

\* the stream is exhausted and DockerStage calls on_done:
\* details = inspect_container(container_id);
\* self.job.exit_code = details['State']['ExitCode']; add; commit;
\* return details['State']['ExitCode']
TestOnDone ==
    /\ test.at = "stream"
    /\ \E ok \in BOOLEAN :
          LET called == DaemonCall("inspect_container", ok, "done") IN
          test' = IF ok
                  THEN [called EXCEPT !.job.exit_code = test.exit,
                                      !.row.exit_code = test.exit,
                                      !.status = test.exit]
                  ELSE called
    /\ UNCHANGED <<pvars, avars, bvars, log, loader>>

IdleStages ==
    /\ log = NoLogs
    /\ loader = NoLoader
    /\ test = NoTest

-----------------------------------------------------------------------------
(* Scenarios *)

Configs ==
    [target_registry : BOOLEAN,
     github_repo_id : BOOLEAN,
     git_branch : {Main},
     branch_pattern : {"None", "^main$"},
     nutils : 0 .. MaxUtils,
     outcomes : {StageOutcomes}]

\* the daemon holds no image of the project, or one under one of the tags
ImagesTagged(tags) ==
    {{}} \cup {{[Id |-> 1,
                RepoTags |-> {docker_image_name \o <<":">> \o t}]} :
                  t \in tags}

InitialImages == ImagesTagged(Tags)

InitJob(tag) ==
    [start_ts |-> 0, complete_ts |-> 0, result |-> "None", tag |-> tag,
     image_id |-> 0, container_id |-> 0, exit_code |-> -1,
     docker_client_host |-> NoHost]

InitScenario(configs, tags, held, workers, queue_calls) ==
    /\ cfg \in configs
    /\ \E tag \in tags : jobs = (JobId :> InitJob(tag))
    /\ images \in held
    /\ stages = (JobId :> <<>>)
    /\ stage_logs = <<>>
    /\ worker_queue = <<>>
    /\ qcalls = 0
    /\ qlimit = queue_calls
    /\ qerr = "None"
    /\ pool = workers
    /\ job_of = [w \in Workers |-> 0]
    /\ client = [w \in Workers |-> NoClient]
    /\ got = [w \in Workers |-> NoClient]
    /\ nacc = [w \in Workers |-> 0]
    /\ pc = [w \in Workers |-> "idle"]
    /\ pend = [w \in Workers |-> NoChanges]
    /\ trace = [w \in Workers |-> <<>>]
    /\ exc = [w \in Workers |-> "none"]
    /\ ret = [w \in Workers |-> "None"]
    /\ uidx = [w \in Workers |-> 0]
    /\ calls = <<>>
    /\ clock = 1
    /\ IdleHandlers
    /\ IdleBuild
    /\ IdleStages

InitWith(configs, workers, queue_calls) ==
    InitScenario(configs, Tags \cup {NoTag}, InitialImages, workers,
                 queue_calls)

\* the job is queued once and there is one worker process
Init == InitWith(Configs, {"w1"}, 1)

Next ==
    \/ Queue
    \/ \E w \in Workers :
          \/ WorkerGet(w)
          \/ RunNow(w)
          \/ Workdir(w)
          \/ GitInfo(w)
          \/ ExternalStatusStart(w)
          \/ GitChanges(w)
          \/ GitMtime(w)
          \/ TagVersion(w)
          \/ PushPrep(w)
          \/ DockerLogin(w)
          \/ Utility(w)
          \/ Provision(w)
          \/ BuildCheck(w)
          \/ Build(w)
          \/ Test(w)
          \/ Push(w)
          \/ Fetch(w)
          \/ Except(w)
          \/ ExternalStatusComplete(w)
          \/ Cleanup(w)
          \/ PostExcept(w)
          \/ Complete(w)

Spec == Init /\ [][Next]_vars

\* the job is handed to the queue up to MaxQueueCalls times and two worker
\* processes take from it; every stage that runs fails or raises, so that a
\* run is the working-directory stage, the handlers and the finally block
QueueConfigs ==
    {[c EXCEPT !.outcomes = {"fail", "raise"}] :
        c \in {d \in Configs : /\ d.target_registry
                               /\ d.github_repo_id
                               /\ d.branch_pattern = "None"
                               /\ d.nutils = 0}}

InitQ == InitWith(QueueConfigs, Workers, MaxQueueCalls)

NextQ ==
    \/ Queue
    \/ \E w \in Workers :
          \/ WorkerGet(w)
          \/ RunNow(w)
          \/ Workdir(w)
          \/ Except(w)
          \/ ExternalStatusComplete(w)
          \/ Cleanup(w)
          \/ PostExcept(w)
          \/ Complete(w)

SpecQ == InitQ /\ [][NextQ]_vars

\* the end-to-end runs: a job tagged v2.0.0 or without a tag, queued once
\* and run by one worker, on a daemon that holds no image of the project or
\* one tagged v2.0.0
InitE == InitScenario(Configs, {V200, NoTag}, ImagesTagged({V200}), {"w1"}, 1)

SpecE == InitE /\ [][Next]_vars

\* a step of Job._run_now in worker process w
Run(w) ==
    \/ RunNow(w)
    \/ Workdir(w)
    \/ GitInfo(w)
    \/ ExternalStatusStart(w)
    \/ GitChanges(w)
    \/ GitMtime(w)
    \/ TagVersion(w)
    \/ PushPrep(w)
    \/ DockerLogin(w)
    \/ Utility(w)
    \/ Provision(w)
    \/ BuildCheck(w)
    \/ Build(w)
    \/ Test(w)
    \/ Push(w)
    \/ Fetch(w)
    \/ Except(w)
    \/ ExternalStatusComplete(w)
    \/ Cleanup(w)
    \/ PostExcept(w)
    \/ Complete(w)

\* the projects for which every stage of the catalog can run
TermConfigs == {c \in Configs : c.target_registry /\ c.github_repo_id}

InitT ==
    InitScenario(TermConfigs, {V200, NoTag}, ImagesTagged({V200}), {"w1"}, 1)

\* a worker process that is in _run_now keeps executing it; every stage
\* hands control back with one of its outcomes
SpecT == InitT /\ [][Next]_vars /\ \A w \in Workers : WF_vars(Run(w))

\* the stages a tagged job has run when it reaches the build stage with
\* every stage so far returning 0
RanUpToBuild(job) ==
    <<"git_prepare", "git_info">>
    \o (IF cfg.github_repo_id THEN <<"external_status_start">> ELSE <<>>)
    \o <<"git_changes", "git_mtime">>
    \o (IF push_candidate(job) THEN <<"docker_push_prep">> ELSE <<>>)
    \o <<"docker_login", "docker_provision">>

\* two jobs of one project
RaceJobs == {JobId, JobId + 1}

RaceConfigs ==
    {c \in Configs : c.github_repo_id /\ c.branch_pattern = "None"
                                      /\ c.nutils = 0}

\* two jobs of one project carrying the same semantic-version tag, each
\* loaded by its own worker process and arrived at the build stage; the
\* daemon holds no image of the project, or one under the tag v1.2.3
InitR ==
    /\ cfg \in RaceConfigs
    /\ \E tag \in {V123, V200} :
          /\ jobs = [j \in RaceJobs |->
                        [InitJob(tag) EXCEPT !.start_ts = j]]
          /\ stages = [j \in RaceJobs |-> RanUpToBuild(InitJob(tag))]
          /\ trace = [w \in Workers |->
                         [i \in DOMAIN RanUpToBuild(InitJob(tag)) |->
                             [slug |-> RanUpToBuild(InitJob(tag))[i],
                              out |-> "ok"]]]
    /\ images \in ImagesTagged({V123})
    /\ stage_logs = <<>>
    /\ worker_queue = <<>>
    /\ qcalls = 1
    /\ qlimit = 1
    /\ qerr = "None"
    /\ pool = Workers
    /\ job_of = [w \in Workers |-> IF w = "w1" THEN JobId ELSE JobId + 1]
    /\ client = [w \in Workers |-> NoClient]
    /\ got = [w \in Workers |-> NoClient]
    /\ nacc = [w \in Workers |-> 0]
    /\ pc = [w \in Workers |-> "docker_build"]
    /\ pend = [w \in Workers |-> NoChanges]
    /\ exc = [w \in Workers |-> "none"]
    /\ ret = [w \in Workers |-> "None"]
    /\ uidx = [w \in Workers |-> 0]
    /\ calls = <<>>
    /\ clock = 3
    /\ IdleHandlers
    /\ IdleBuild
    /\ IdleStages

NextR ==
    \E w \in Workers :
        \/ BuildCheck(w)
        \/ Build(w)

SpecR == InitR /\ [][NextR]_vars

\* the pools of hosts: one host, one host with client arguments, a host
\* whose string is the beginning of another's (in both orders), and a pool
\* without the hosts h and h2
HostPools ==
    {<<HostH>>, <<HostHArgs>>, <<HostH, HostH2>>, <<HostH2, HostH>>,
     <<HostG>>}

DockerConfigs ==
    {c @@ [docker_hosts |-> hosts, docker_use_env_vars |-> use_env,
           env_docker_host |-> env] :
        c \in {d \in Configs : ~d.target_registry /\ ~d.github_repo_id
                                /\ d.branch_pattern = "None"
                                /\ d.nutils = 0},
        hosts \in HostPools, use_env \in BOOLEAN, env \in {NoHost, HostE}}

\* a job that has recorded no client host yet, or one of h, h2, loaded by
\* two processes, none of which has a client cached
InitD ==
    /\ cfg \in DockerConfigs
    /\ \E host \in {NoHost, HostH, HostH2} :
          jobs = (JobId :> [InitJob(NoTag) EXCEPT
                               !.docker_client_host = host])
    /\ stages = (JobId :> <<>>)
    /\ images = {}
    /\ stage_logs = <<>>
    /\ worker_queue = <<>>
    /\ qcalls = 0
    /\ qlimit = 0
    /\ qerr = "None"
    /\ pool = Workers
    /\ job_of = [w \in Workers |-> JobId]
    /\ client = [w \in Workers |-> NoClient]
    /\ got = [w \in Workers |-> NoClient]
    /\ nacc = [w \in Workers |-> 0]
    /\ pc = [w \in Workers |-> "idle"]
    /\ pend = [w \in Workers |-> NoChanges]
    /\ trace = [w \in Workers |-> <<>>]
    /\ exc = [w \in Workers |-> "none"]
    /\ ret = [w \in Workers |-> "None"]
    /\ uidx = [w \in Workers |-> 0]
    /\ calls = <<>>
    /\ clock = 1
    /\ IdleHandlers
    /\ IdleBuild
    /\ IdleStages

NextD == \E w \in Workers : DockerClient(w)

SpecD == InitD /\ [][NextD]_vars

\* projects with a GitHub repository, a GitLab repository, both or none
GitlabConfigs ==
    {c @@ [gitlab_repo_id |-> gitlab] :
        c \in {d \in Configs : /\ d.target_registry
                               /\ d.branch_pattern = "^main$"
                               /\ d.nutils = 1},
        gitlab \in BOOLEAN}

InitG == InitWith(GitlabConfigs, {"w1"}, 1)

SpecG == InitG /\ [][Next]_vars

\* projects with a registry, a GitHub repository and a utility, whose job
\* configuration does or does not skip the tests
SkipConfigs ==
    {c @@ [skip_tests |-> skip] :
        c \in {d \in Configs : /\ d.target_registry
                               /\ d.github_repo_id
                               /\ d.nutils = 1},
        skip \in BOOLEAN}

InitK == InitWith(SkipConfigs, {"w1"}, 1)

SpecK == InitK /\ [][Next]_vars

\* no job queued and no worker process
IdleConfig ==
    [target_registry |-> FALSE, github_repo_id |-> FALSE,
     git_branch |-> Main, branch_pattern |-> "None", nutils |-> 0,
     outcomes |-> StageOutcomes]

InitIdle == InitScenario({IdleConfig}, {NoTag}, {{}}, {}, 0)

\* one call of one of the model helpers
NextA ==
    \/ StateDataFor
    \/ SlugFromId
    \/ IdFromSlug
    \/ UpdateDetailsFrom
    \/ FromFiles

SpecA == InitIdle /\ [][NextA]_vars

\* requests to the new-build view, one after another
NextW == BuildNewView

SpecW == InitIdle /\ [][NextW]_vars

\* requests to the project API, one after another
NextP ==
    \/ ProjectPut
    \/ ProjectPost

SpecP == InitIdle /\ [][NextP]_vars

\* one run of a build
NextB ==
    \/ BuildRunNow
    \/ Build_stage
    \/ StageRun

SpecB == InitIdle /\ [][NextB]_vars

\* a build run, its stages writing to their logs, and a client streaming one
\* of the logs
NextL ==
    \/ BuildRunNow
    \/ Build_stage
    \/ StageRun
    \/ StageWrite
    \/ BuildOutputView
    \/ LoaderRead
    \/ LoaderCheck
    \/ LoaderWait

SpecL == InitIdle /\ [][NextL]_vars

\* calls of the status, build and test stages' code, one at a time
NextS ==
    \/ SendExternalStatus
    \/ ExternalStatusRunnable
    \/ BuildOnDone
    \/ ChangedResult
    \/ TestRunnable
    \/ TestCreate
    \/ TestAttach
    \/ TestStart
    \/ TestOnDone

SpecS == InitIdle /\ [][NextS]_vars

-----------------------------------------------------------------------------
(* Observations used by the properties *)

\* the positions of worker w's trace at which the stage slug ran
Ran(w, slug) == {i \in DOMAIN trace[w] : trace[w][i].slug = slug}

\* the outcomes the stage slug had in worker w's run
Outcome(w, slug) == {trace[w][i].out : i \in Ran(w, slug)}

\* the stages of worker w's run that did not return status 0
Failures(w) == {i \in DOMAIN trace[w] : trace[w][i].out # "ok"}

Returned(w) == pc[w] = "done"

\* the stages run in the finally block
PostSlugs == {"external_status_complete", "cleanup"}

\* a stage of the try body raised in worker w's run
RaisedInMain(w) ==
    \E i \in DOMAIN trace[w] :
        IsRaise(trace[w][i].out) /\ trace[w][i].slug \notin PostSlugs

\* a stage of the finally block raised in worker w's run
RaisedInPost(w) ==
    \E i \in DOMAIN trace[w] :
        IsRaise(trace[w][i].out) /\ trace[w][i].slug \in PostSlugs

\* the daemon holds an image named <image name>:<the job's tag>
HoldsTagged(job) ==
    /\ job.tag # NoTag
    /\ \E image \in images :
          (docker_image_name \o <<":">> \o job.tag) \in image.RepoTags

\* the daemon calls issued in the step
NewCalls == SubSeq(calls', Len(calls) + 1, Len(calls'))

\* worker w runs the build stage's existing-image check in the step
BuildStep(w) == pc[w] = "docker_build" /\ pc'[w] # "docker_build"

\* worker w makes the build stage's build call in the step
BuildCallStep(w) ==
    pc[w] = "docker_build_call" /\ pc'[w] # "docker_build_call"

-----------------------------------------------------------------------------
(* Properties *)

\* C1: for every run of Job._run_now with a single failure injected at any
\* one stage (non-zero status or raised exception), the cleanup stage has
\* run (its slug is in the stage sequence) when _run_now returns.
C1_CleanupAlwaysRuns ==
    \A w \in Workers :
        (Returned(w) /\ Cardinality(Failures(w)) = 1)
            => /\ Ran(w, "cleanup") # {}
               /\ \E i \in DOMAIN job_stages : job_stages[i] = "cleanup"

\* C2: once Job.result is set to success, fail or broken, no later step
\* changes it to a different value.
C2_ResultIsTerminal ==
    [][db.result # "None" => db'.result = db.result]_vars

\* C3: when _run_now has returned, result is 'fail' if the test stage ended
\* with a non-zero status, 'broken' if the push stage failed, 'broken' if
\* the GitInfo stage failed, and 'broken' if the build stage raised.
C3_ResultClassification ==
    \A w \in Workers :
        Returned(w) =>
            /\ "fail" \in Outcome(w, "docker_test") => db.result = "fail"
            /\ "fail" \in Outcome(w, "docker_push") => db.result = "broken"
            /\ "fail" \in Outcome(w, "git_info") => db.result = "broken"
            /\ (\E o \in Outcome(w, "docker_build") : IsRaise(o))
                  => db.result = "broken"

C3_Witness ==
    /\ Returned("w1")
    /\ "fail" \in Outcome("w1", "docker_test")
    /\ db.result = "fail"

\* C4: start_ts is assigned at most once and the stage sequence is executed
\* at most once, for any interleaving of queue() calls and workers.
C4_StartedOnce ==
    /\ [][db.start_ts # 0 => db'.start_ts = db.start_ts]_vars
    /\ [](Cardinality({i \in DOMAIN job_stages :
                          job_stages[i] = "git_prepare"}) <= 1)

\* C5: queue() on a job whose start_ts is set raises AlreadyRunError, puts
\* nothing on the worker queue and changes no field of the job; on a job
\* whose start_ts is unset it puts exactly the job's id on the queue and
\* changes no field of the job.
C5_QueueGuard ==
    [][qcalls' # qcalls =>
          /\ db' = db
          /\ pend' = pend
          /\ IF db.start_ts # 0
             THEN /\ qerr' = "AlreadyRunError"
                  /\ worker_queue' = worker_queue
             ELSE /\ qerr' = "None"
                  /\ worker_queue' = worker_queue \o <<JobId>>]_vars

C5_Witness ==
    /\ qerr = "AlreadyRunError"
    /\ db.start_ts # 0
    /\ qcalls = 2

\* C6: with or without a target registry, if the daemon holds an image of
\* the project under the job's semantic-version tag, the build stage raises
\* AlreadyBuiltError and issues no build call.
C6_TaggedBuildImmutable ==
    [][\A w \in Workers :
          (BuildStep(w) /\ HoldsTagged(Job(w)) /\ is_semantic(Job(w).tag))
              => /\ exc'[w] = "raise_human"
                 /\ pc'[w] = "except"
                 /\ \A i \in DOMAIN NewCalls : NewCalls[i].op # "build"]_vars

\* C7: for a job with a non-semantic tag and an image held under that tag,
\* the build stage issues exactly one remove-image call, for that image,
\* and after it the build call (whether or not the removal failed).
C7_NonSemanticReplaced ==
    [][\A w \in Workers :
          /\ (BuildStep(w) /\ HoldsTagged(Job(w))
                 /\ ~is_semantic(Job(w).tag))
                => /\ Cardinality({i \in DOMAIN NewCalls :
                                      NewCalls[i].op = "remove_image"}) = 1
                   /\ pc'[w] = "docker_build_call"
          /\ BuildCallStep(w)
                => \E i \in DOMAIN NewCalls : NewCalls[i].op = "build"]_vars

\* C8: a failure (non-zero status or exception) of Fetch or of an
\* ExternalStatus stage leaves the final result what it would have been had
\* the stage succeeded: a run in which nothing else failed ends 'success'.
C8_BestEffortStages ==
    \A w \in Workers :
        (/\ Returned(w)
         /\ \A i \in Failures(w) :
               trace[w][i].slug \in {"docker_fetch", "external_status_start",
                                     "external_status_complete"})
            => db.result = "success"

\* C9: an exception raised by a stage of the main run does not escape
\* _run_now; result is 'broken', an 'error' stage is recorded with the
\* exception's message or the stack trace, and the ExternalStatus complete
\* stage and the cleanup stage have both run.
C9_MainExceptionHandled ==
    \A w \in Workers :
        (Returned(w) /\ RaisedInMain(w))
            => /\ ret[w] = "False"
               /\ db.result = "broken"
               /\ \E i \in DOMAIN stage_logs :
                     /\ stage_logs[i].slug = "error"
                     /\ stage_logs[i].log \in {"message", "traceback"}
               /\ Ran(w, "external_status_complete") # {}
               /\ Ran(w, "cleanup") # {}

-----------------------------------------------------------------------------
(* Prepare phase, fail-fast order, and the end-to-end runs *)

\* the prepare-phase stages whose failure the orchestrator is to treat as
\* fatal
PrepareStages ==
    {"git_prepare", "git_info", "git_changes", "docker_push_prep",
     "docker_login", "docker_provision", "docker_build"} \cup Range(UtilSlugs)

\* the stages of the try body, in the order of the stage catalog
StageOrder ==
    <<"git_prepare", "git_info", "git_changes", "git_mtime", "git_tag",
      "docker_push_prep", "docker_login">> \o UtilSlugs \o
    <<"docker_provision", "docker_build", "docker_test", "docker_push",
      "docker_fetch">>

Rank(slug) == CHOOSE i \in DOMAIN StageOrder : StageOrder[i] = slug

\* the slugs of worker w's run, in the order they ran
Slugs(w) == [i \in DOMAIN trace[w] |-> trace[w][i].slug]

\* C11: a non-zero status from any one of Workdir, GitInfo, GitChanges,
\* PushPrep, DockerLogin, a Utility stage, Provision or Build makes the
\* final result 'broken'.
C11_PrepareFailureBroken ==
    \A w \in Workers :
        (/\ Returned(w)
         /\ \E i \in DOMAIN trace[w] :
               trace[w][i].slug \in PrepareStages /\ trace[w][i].out = "fail")
            => db.result = "broken"

\* C12: within one run the prepare-phase stages run one after another in
\* the catalog's order, and after the first of them that fails (non-zero
\* status or exception) no later prepare-phase stage, nor Test, Push or
\* Fetch, is started: only ExternalStatus complete and Cleanup still run.
C12_FailFast ==
    \A w \in Workers :
        \A i, j \in DOMAIN trace[w] :
            i < j =>
               /\ (trace[w][i].slug \in Range(StageOrder)
                     /\ trace[w][j].slug \in Range(StageOrder))
                     => Rank(trace[w][i].slug) < Rank(trace[w][j].slug)
               /\ (trace[w][i].slug \in PrepareStages
                     /\ trace[w][i].out # "ok")
                     => trace[w][j].slug \in PostSlugs

FullRun ==
    <<"git_prepare", "git_info">>
    \o (IF cfg.github_repo_id THEN <<"external_status_start">> ELSE <<>>)
    \o <<"git_changes", "git_mtime", "git_tag", "docker_login">>
    \o SubSeq(UtilSlugs, 1, cfg.nutils)
    \o <<"docker_provision", "docker_build", "docker_test", "docker_push",
         "docker_fetch", "external_status_complete", "cleanup">>

\* C14: no target registry, a job without a tag on branch main, every
\* stage returning 0 (test exit code 0): the job is not a push candidate,
\* the stages run from Workdir through Test, then Push (issuing no push to
\* the daemon), Fetch and Cleanup, and the final result is 'success'.
C14_SuccessScenario ==
    \A w \in Workers :
        (/\ Returned(w)
         /\ ~cfg.target_registry
         /\ cfg.git_branch = Main
         /\ Ran(w, "git_tag") # {}
         /\ Failures(w) = {})
            => /\ ~push_candidate(db)
               /\ Slugs(w) = FullRun
               /\ job_stages = FullRun
               /\ Outcome(w, "docker_push") = {"ok"}
               /\ \A i \in DOMAIN calls : calls[i].op # "push"
               /\ db.exit_code = 0
               /\ db.result = "success"
               /\ ret[w] = "True"

C14_Witness ==
    /\ Returned("w1")
    /\ ~cfg.target_registry
    /\ Ran("w1", "git_tag") # {}
    /\ Failures("w1") = {}
    /\ Slugs("w1") = FullRun
    /\ db.result = "success"

-----------------------------------------------------------------------------
(* Termination and the persisted life cycle *)

TerminalResults == {"success", "fail", "broken"}

C16_ResultImpliesComplete ==
    db.result # "None" => db.complete_ts # 0

\* C16 as amended: complete_ts set implies result non-null in every
\* committed state, and result non-null implies complete_ts set once no
\* run of the job is in progress.
C16_Amended ==
    /\ db.complete_ts # 0 => db.result \in TerminalResults
    /\ (db.result # "None" /\ \A w \in Workers : pc[w] \in {"idle", "done"})
          => db.complete_ts # 0

C16_Witness ==
    /\ Returned("w1")
    /\ db.result = "fail"
    /\ db.complete_ts > db.start_ts

\* C17: Job.state is 'queued' exactly when start_ts is unset, and 'running'
\* exactly when start_ts is set and result is unset, in every committed
\* state.
C17_StateFollowsStart ==
    /\ state(db, job_stages) = "queued" <=> db.start_ts = 0
    /\ state(db, job_stages) = "running"
          <=> (db.start_ts # 0 /\ db.result = "None")

-----------------------------------------------------------------------------
(* Concurrent builds of one tag *)

\* the positions in the daemon's call log of worker w's calls of kind op
CallsOf(w, op) == {i \in DOMAIN calls : calls[i].op = op /\ calls[i].by = w}

\* C18: two jobs of one project with the same new semantic-version tag, run
\* by two workers, can both pass the existing-image check and both call the
\* daemon's build: a worker that has passed the check makes its build call
\* under the name it checked whatever the daemon holds by then -- nothing
\* excludes the second job.
C18_BuildNotExclusive ==
    [][\A w \in Workers :
          BuildCallStep(w)
             => \E i \in DOMAIN NewCalls :
                   /\ NewCalls[i].op = "build"
                   /\ NewCalls[i].by = w
                   /\ NewCalls[i].tag = docker_full_name(Job(w))]_vars

\* both checks were made before either build, both builds were called for
\* the same name, and the name ended on one image only
C18_Witness ==
    /\ cfg.target_registry
    /\ jobs[JobId].tag = jobs[JobId + 1].tag
    /\ is_semantic(jobs[JobId].tag)
    /\ \A w \in Workers :
          /\ CallsOf(w, "images") # {}
          /\ CallsOf(w, "build") # {}
          /\ Outcome(w, "docker_build") = {"ok"}
    /\ \A i \in CallsOf("w1", "images") \cup CallsOf("w2", "images") :
          \A j \in CallsOf("w1", "build") \cup CallsOf("w2", "build") : i < j
    /\ \A i \in CallsOf("w1", "build"), j \in CallsOf("w2", "build") :
          calls[i].tag = calls[j].tag
    /\ Cardinality(images) >= 2
    /\ Cardinality({image \in images :
                       (docker_image_name \o <<":">> \o jobs[JobId].tag)
                           \in image.RepoTags}) = 1

-----------------------------------------------------------------------------
(* Docker client selection *)

\* process w accesses Job.docker_client in the step
AccessStep(w) == nacc'[w] # nacc[w]

IsClient(x) == x.kind = "client"

\* C19: within one process, the first access to Job.docker_client that
\* returns a client has committed a non-null docker_client_host (that
\* client's base URL) by then, and every later access returns the same
\* cached client and leaves docker_client_host alone.
C19_ClientCached ==
    [][\A w \in Workers :
          AccessStep(w) =>
             /\ (client[w] = NoClient /\ IsClient(got'[w]))
                   => /\ db'.docker_client_host # NoHost
                      /\ db'.docker_client_host = got'[w].base_url
                      /\ pend'[w] = NoChanges
                      /\ client'[w] = got'[w]
             /\ client[w] # NoClient
                   => /\ got'[w] = client[w]
                      /\ client'[w] = client[w]
                      /\ jobs' = jobs]_vars

C19_Witness ==
    /\ nacc["w1"] = 2
    /\ IsClient(got["w1"])
    /\ got["w1"].n = 1
    /\ got["w1"] = client["w1"]
    /\ db.docker_client_host = got["w1"].base_url

\* C20: a job with a recorded docker_client_host that resolves its client
\* in a fresh process binds to the recorded endpoint and keeps
\* docker_client_host, for every pool of hosts.
C20_RebindsToRecordedHost ==
    [][\A w \in Workers :
          (AccessStep(w) /\ client[w] = NoClient
              /\ db.docker_client_host # NoHost)
             => /\ IsClient(got'[w])
                /\ got'[w].base_url = db.docker_client_host
                /\ db'.docker_client_host = db.docker_client_host]_vars

-----------------------------------------------------------------------------
(* Push candidates, the provider state table, and the order of the stages *)

ProviderStates ==
    [github |-> [queued |-> "pending", running |-> "pending",
                 success |-> "success", fail |-> "failure",
                 broken |-> "error", other |-> "error"],
     gitlab |-> [queued |-> "pending", running |-> "running",
                 success |-> "success", fail |-> "failed",
                 broken |-> "canceled", other |-> "canceled"]]

\* C22: for the providers github and gitlab, state_data_for maps the job
\* states queued, running, success, fail and broken to the provider state
\* of the table, and any other state to error (github) or canceled
\* (gitlab); a call without a state maps the job's own state.
C22_StateMapping ==
    (call.fn = "state_data_for" /\ call.service \in {"github", "gitlab"})
        => LET st == IF call.state \in {"None", ""} THEN call.job_state
                     ELSE call.state
           IN  res.state =
                   IF st \in {"queued", "running", "success", "fail",
                              "broken"}
                   THEN ProviderStates[call.service][st]
                   ELSE ProviderStates[call.service].other

C22_Witness ==
    \/ /\ call.fn = "state_data_for"
       /\ call.service = "gitlab"
       /\ call.state = "broken"
       /\ res.state = "canceled"
    \/ /\ call.fn = "state_data_for"
       /\ call.service = "github"
       /\ call.state = "cancelled"
       /\ res.state = "error"

\* the slugs Build.save() wrote last
SavedSlugs == build_file.build_stage_slugs

\* C23: a stage's slug is appended to the stage-slug sequence and saved
\* before the stage's runnable starts; if the runnable raises, the slug is
\* in the saved sequence exactly once and the one outcome recorded for the
\* stage is the exception.
C23_AppendBeforeRun ==
    /\ bpc.at = "run"
          => /\ SavedSlugs # <<>>
             /\ SavedSlugs[Len(SavedSlugs)] = BuildStages[bpc.stage]
             /\ bevents[Len(bevents)] =
                    [slug |-> BuildStages[bpc.stage], out |-> "started"]
    /\ \A i \in DOMAIN bevents :
          bevents[i].out = "raise"
             => /\ Cardinality({k \in DOMAIN SavedSlugs :
                                   SavedSlugs[k] = bevents[i].slug}) = 1
                /\ {k \in DOMAIN bevents :
                       bevents[k].slug = bevents[i].slug} = {i}

C23_Witness ==
    /\ bpc.at = "done"
    /\ \E i \in DOMAIN bevents :
          bevents[i] = [slug |-> "docker_test", out |-> "raise"]
    /\ SavedSlugs[Len(SavedSlugs)] = "cleanup"

\* the stages of a job run, in the order of the claim
JobStageOrder == StageOrder \o <<"external_status_complete", "cleanup">>

\* the place of each of these stages in the order
JobStageRank ==
    [slug \in Range(JobStageOrder) |->
        CHOOSE k \in DOMAIN JobStageOrder : JobStageOrder[k] = slug]

\* C24: within one job run every stage is started at most once, and the
\* stages that run are started in the order Workdir, GitInfo, GitChanges,
\* GitMtime, TagVersion, PushPrep, DockerLogin, the utility stages,
\* Provision, Build, Test, Push, Fetch, ExternalStatus complete, Cleanup:
\* a step of the run starts at most one stage, and that stage comes later
\* in this order than every stage of the order the run started before.
C24_FixedOrder ==
    [][\A w \in Workers :
          trace'[w] # trace[w]
             => /\ Len(trace'[w]) = Len(trace[w]) + 1
                /\ SubSeq(trace'[w], 1, Len(trace[w])) = trace[w]
                /\ LET started == trace'[w][Len(trace'[w])].slug IN
                   started \in DOMAIN JobStageRank
                      => \A i \in DOMAIN trace[w] :
                            trace[w][i].slug \in DOMAIN JobStageRank
                               => JobStageRank[trace[w][i].slug]
                                      < JobStageRank[started]]_vars

C24_Witness ==
    /\ Returned("w1")
    /\ Ran("w1", "git_tag") # {}
    /\ Ran("w1", "docker_push_prep") # {}
    /\ Ran("w1", "utility_1") # {}
    /\ Ran("w1", "docker_fetch") # {}
    /\ Ran("w1", "cleanup") # {}

\* C25: for a project with a GitHub or a GitLab repository id, a run that
\* gets past GitInfo runs the ExternalStatus start stage and the
\* ExternalStatus complete stage.
C25_BothStatusStages ==
    \A w \in Workers :
        (/\ Returned(w)
         /\ cfg.github_repo_id \/ cfg.gitlab_repo_id
         /\ "ok" \in Outcome(w, "git_info"))
            => /\ Ran(w, "external_status_start") # {}
               /\ Ran(w, "external_status_complete") # {}

-----------------------------------------------------------------------------
(* The web handlers *)

\* the X-Hub-Signature values that name sha1 and carry the HMAC-SHA1 of
\* the body under the secret
GoodSignatures(secret, data) ==
    {<<<<t>>, <<"=">>, hexdigest(secret, data)>> : t \in {"sha1", "SHA1"}}

\* C26: a GitHub webhook request to the new-build view whose
\* X-Hub-Signature header is missing, cannot be parsed, names a hash type
\* other than sha1 or does not carry the HMAC-SHA1 of the body under the
\* project's secret, or whose project has no secret, leaves the saved and
\* the queued builds as they were.
C26_RejectedWebhook ==
    [][(/\ call'.fn = "build_new_view"
        /\ call'.request.event # "None"
        /\ \/ ~call'.request.has_signature
           \/ call'.project.github_secret \in {"None", ""}
           \/ call'.request.signature
                 \notin GoodSignatures(call'.project.github_secret,
                                       call'.request.data))
          => /\ builds' = builds
             /\ build_queue' = build_queue]_vars

\* a push hook signed under another secret was answered 403 and a hook
\* with a header that cannot be parsed 500, and nothing is saved
C26_Witness ==
    /\ call.fn = "build_new_view"
    /\ call.request.event = "push"
    /\ call.project.github_secret = "s1"
    /\ call.request.has_signature
    /\ \/ /\ call.request.signature =
                <<<<"sha1">>, <<"=">>, hexdigest("s2", call.request.data)>>
          /\ res.status = 403
       \/ /\ call.request.signature = <<<<"sha1">>>>
          /\ res.status = 500
    /\ builds = <<>>
    /\ build_queue = <<>>

\* C27: after any sequence of PUT and POST requests to the project API,
\* every stored project whose utility flag is true has a target registry.
C27_UtilityHasRegistry ==
    \A s \in DOMAIN projects :
        (projects[s].exists /\ projects[s].utility)
            => projects[s].target_registry # "None"

\* a POST that would blank the registry of a utility project was refused
C27_Witness ==
    /\ call.fn = "post"
    /\ call.args.target_registry = ""
    /\ res.status = 400
    /\ projects[ProjectSlug].exists
    /\ projects[ProjectSlug].utility
    /\ projects[ProjectSlug].target_registry = "r"

-----------------------------------------------------------------------------
(* The model helpers *)

\* slug is six lower-case hex digits that denote id_
SixHexDigitsOf(slug, id_) ==
    /\ Len(slug) = 6
    /\ \A i \in 1..6 : slug[i] \in Range(HexDigits)
    /\ LET v(i) == (CHOOSE d \in 1..16 : HexDigits[d] = slug[i]) - 1 IN
       id_ = v(1) * 16^5 + v(2) * 16^4 + v(3) * 16^3 + v(4) * 16^2
                + v(5) * 16 + v(6)

\* slug is the slug of an id from 1 to 16^6 - 1: six lower-case hex
\* digits, not all of them 0
SlugOfSmallId(slug) ==
    /\ Len(slug) = 6
    /\ \A i \in 1..6 : slug[i] \in Range(HexDigits)
    /\ \E i \in 1..6 : slug[i] # "0"

\* C28 (as stated): for every id from 1 to 16^6 - 1, slug_from_id(id) is
\* six lower-case hex characters, left-padded with zeros, and
\* id_from_slug gives the id back; slug_from_id(id_from_slug(slug)) is
\* slug for every such slug; and the slug is 6 characters wide for every
\* positive id.
C28_SlugRoundTrip ==
    /\ call.fn = "slug_from_id"
          => /\ call.id \in 1..(16^6 - 1)
                   => /\ SixHexDigitsOf(res.slug, call.id)
                      /\ res.back = call.id
             /\ Len(res.slug) = 6
    /\ (call.fn = "id_from_slug" /\ SlugOfSmallId(call.slug))
          => res.back = call.slug

\* C28 (amended): for every id from 1 to 16^6 - 1, slug_from_id(id) is six
\* lower-case hex characters, left-padded with zeros; for every positive
\* id, id_from_slug gives the id back and the slug is at least 6
\* characters wide, exactly 6 only below 16^6;
\* slug_from_id(id_from_slug(slug)) is slug for every slug of an id from 1
\* to 16^6 - 1.
C28_Amended ==
    /\ call.fn = "slug_from_id"
          => /\ call.id \in 1..(16^6 - 1)
                   => SixHexDigitsOf(res.slug, call.id)
             /\ res.back = call.id
             /\ Len(res.slug) >= 6
             /\ Len(res.slug) = 6 <=> call.id < 16^6
    /\ (call.fn = "id_from_slug" /\ SlugOfSmallId(call.slug))
          => /\ SixHexDigitsOf(call.slug, res.id)
             /\ res.back = call.slug

\* the id 16^6 was given the slug 1000000
C28_Witness ==
    /\ call.fn = "slug_from_id"
    /\ call.id = 16^6
    /\ res.slug = <<"1", "0", "0", "0", "0", "0", "0">>
    /\ res.back = call.id

TokenDetails == {"key", "secret", "scope"}

\* C29: update_details_from copies those of key, secret and scope that are
\* not None on the other token and leaves the rest; when both tokens have
\* a user and the primary emails differ it raises ValueError and leaves
\* key, secret and scope of the receiver as they were; when either token
\* has no user the copy is made.
C29_UpdateDetails ==
    call.fn = "update_details_from"
        => LET differ == /\ call.self.user # "None"
                         /\ call.other.user # "None"
                         /\ call.self.user # call.other.user
           IN  /\ differ
                     => /\ res.raised = "ValueError"
                        /\ \A a \in TokenDetails : res.self[a] = call.self[a]
               /\ (call.self.user = "None" \/ call.other.user = "None")
                     => res.raised = "None"
               /\ res.raised = "None"
                     => \A a \in TokenDetails :
                           res.self[a] = IF call.other[a] # "None"
                                         THEN call.other[a]
                                         ELSE call.self[a]
               /\ res.self.user = call.self.user

C29_Witness ==
    \/ /\ call.fn = "update_details_from"
       /\ call.self.user = "2@test.com"
       /\ call.other.user = "1@test.com"
       /\ call.other.secret = "basekey"
       /\ call.self.secret = "otherkey"
       /\ res.raised = "ValueError"
       /\ res.self.secret = "otherkey"
    \/ /\ call.fn = "update_details_from"
       /\ call.self.user = "2@test.com"
       /\ call.other.user = "None"
       /\ call.other.key = "basekey"
       /\ call.other.scope = "None"
       /\ call.self.scope = "otherkey"
       /\ res.self.key = "basekey"
       /\ res.self.scope = "otherkey"

\* C30: from_files gives the same etag for every order of the same files
\* and for the same contents under other paths, and another etag when the
\* content of one of the files is changed.
C30_EtagOfContents ==
    call.fn = "from_files"
        => LET files == call.files IN
           /\ \A p \in Permutations(DOMAIN files) :
                 from_files([i \in DOMAIN files |-> files[p[i]]]) = res.etag
           /\ \A paths \in [DOMAIN files -> {"a", "dir/b", "tmp/c"}] :
                 from_files([i \in DOMAIN files |->
                                [path |-> paths[i],
                                 content |-> files[i].content]]) = res.etag
           /\ \A i \in DOMAIN files :
                 \A content \in FileContents \ {files[i].content} :
                     from_files([files EXCEPT ![i].content = content])
                         # res.etag

\* two files whose digests sort in the other order than the files came in
C30_Witness ==
    /\ call.fn = "from_files"
    /\ Len(call.files) = 2
    /\ DigestLess(sha1(call.files[2].content), sha1(call.files[1].content))
    /\ res.etag = from_files(<<call.files[2], call.files[1]>>)

-----------------------------------------------------------------------------
\* C31: a client that asked for the log of the stage that was running then
\* has, once the stream has ended, received every byte that stage wrote to
\* its log.
C31_StreamComplete ==
    (loader.running /\ loader.at = "ended")
        => loader.sent = log[loader.filename]

-----------------------------------------------------------------------------
\* C32: from the start of the working-directory stage until complete_ts has
\* been saved, the temporary directory of the run exists.
C32_WorkdirUntilComplete ==
    (bevents # <<>> /\ build_file.complete_ts = 0) => workdir = "held"

-----------------------------------------------------------------------------
\* worker w's run starts the stage slug in the step
StartsStage(w, slug) ==
    /\ Len(trace'[w]) = Len(trace[w]) + 1
    /\ trace'[w][Len(trace'[w])].slug = slug

\* C33: a non-zero status of the git_mtime or of the git_tag stage leaves
\* the job's result, committed or not, as it was, and the run goes on with
\* the next stage of the prepare phase; the git_tag stage is started only
\* for a job without a tag.
C33_AdvisoryTagStages ==
    [][\A w \in Workers :
          /\ \A slug \in {"git_mtime", "git_tag"} :
                (StartsStage(w, slug)
                    /\ trace'[w][Len(trace'[w])].out = "fail")
                   => /\ jobs'[job_of[w]].result = jobs[job_of[w]].result
                      /\ (pend'[w] @@ jobs'[job_of[w]]).result
                             = Job(w).result
                      /\ ret'[w] = ret[w]
                      /\ exc'[w] = exc[w]
                      /\ pc'[w] = IF slug = "git_mtime" /\ Job(w).tag = NoTag
                                  THEN "git_tag"
                                  ELSE IF push_candidate(Job(w))
                                  THEN "docker_push_prep"
                                  ELSE "docker_login"
          /\ StartsStage(w, "git_tag") => Job(w).tag = NoTag]_vars

C33_Witness ==
    /\ Returned("w1")
    /\ Outcome("w1", "git_mtime") = {"fail"}
    /\ Outcome("w1", "git_tag") = {"fail"}
    /\ Failures("w1") = Ran("w1", "git_mtime") \cup Ran("w1", "git_tag")
    /\ db.result = "success"

-----------------------------------------------------------------------------
\* the providers a project has a repository id for
Configured(project) == {s \in Range(Services) : project[s] # "None"}

\* C34: the ExternalStatus stage attempts a notification for every provider
\* the project has a repository id for; it returns status 0 exactly when
\* there is such a provider and every one of them answered 201; without a
\* provider it attempts nothing and returns a non-zero status.
C34_EveryProviderNotified ==
    call.fn = "ExternalStatusStage.runnable"
       => LET configured == Configured(call.project) IN
          /\ Range(res.attempted) = configured
          /\ (res.raised = "None" /\ res.status = 0)
                <=> /\ configured # {}
                    /\ \A s \in configured :
                          /\ s \in Range(res.posted)
                          /\ call.responses[s] = 201
          /\ configured = {}
                => /\ res.attempted = <<>>
                   /\ res.raised = "None"
                   /\ res.status # 0

-----------------------------------------------------------------------------
\* C35: for every state of the job, send_external_status with the
\* project's token raises nothing and posts state, target_url and context;
\* the description is in the payload exactly when the state has a message,
\* which 'queued' has not.
C35_StatusForEveryState ==
    (call.fn = "send_external_status" /\ call.token = call.service)
       => /\ res.raised = "None"
          /\ {"state", "target_url", "context"} \subseteq res.payload.keys
          /\ "description" \in res.payload.keys
                <=> call.job_state # "queued"

-----------------------------------------------------------------------------
\* the final non-empty line of a stream, the empty line if it has none
LastNonEmpty(stream) ==
    LET filled == {i \in DOMAIN stream : stream[i] # <<>>} IN
    IF filled = {} THEN <<>>
    ELSE stream[CHOOSE i \in filled : \A j \in filled : j <= i]

\* the image id a line of the stream carries
IdCarried(line) ==
    IF line = <<"stream", "Successfully built ", "i1">> THEN "i1"
    ELSE IF line = <<"stream", "Successfully built ", "i2">> THEN "i2"
    ELSE "None"

\* C36: the build stage's status is 0 exactly when the final non-empty line
\* of the build stream carries an image id, and the job's image id is then
\* that id; a stream without a non-empty line, and a final line without an
\* image id, give a non-zero status.
C36_BuildOnDone ==
    call.fn = "BuildStage.on_done"
       => LET id == IdCarried(LastNonEmpty(call.stream)) IN
          /\ res.status = 0 <=> id # "None"
          /\ res.status = 0 => res.image_id = id
          /\ id = "None" => res.status # 0

C36_Witness ==
    /\ call.fn = "BuildStage.on_done"
    /\ call.stream = <<<<"stream", "Successfully built ", "i1">>,
                       <<"stream", "Step 1 : FROM scratch">>,
                       <<"stream", "Successfully built ", "i2">>>>
    /\ call.image_id = "i0"
    /\ res = [status |-> 0, image_id |-> "i2"]

-----------------------------------------------------------------------------
\* C37: the build call is made with the cache disabled exactly when the job
\* has a tag when the build stage runs, and the job has one exactly when it
\* came with a tag (the git_tag stage was not run) or the git_tag stage
\* derived one.
C37_NoCacheIffTag ==
    [][\A w \in Workers :
          BuildCallStep(w)
             => \A i \in DOMAIN NewCalls :
                   NewCalls[i].op = "build"
                      => /\ NewCalls[i].nocache = (Job(w).tag # NoTag)
                         /\ NewCalls[i].nocache
                               = (\/ Ran(w, "git_tag") = {}
                                  \/ Outcome(w, "git_tag") = {"ok"})]_vars

C37_Witness ==
    /\ Outcome("w1", "git_tag") = {"ok"}
    /\ db.tag = Nightly
    /\ \E i \in DOMAIN calls : calls[i].op = "build" /\ calls[i].nocache

-----------------------------------------------------------------------------
\* the place of the daemon call op among the calls of the test stage
CallIndex(op) == CHOOSE i \in DOMAIN test.calls : test.calls[i] = op

-----------------------------------------------------------------------------
\* C39: when the tests are skipped, the job reaches the push stage with no
\* container id and no exit code, and a job that is a push candidate is
\* pushable there.
C39_SkippedTestsPushable ==
    \A w \in Workers :
        (skip_tests /\ pc[w] = "docker_push")
           => /\ Job(w).container_id = 0
              /\ Job(w).exit_code = -1
              /\ push_candidate(Job(w)) => pushable(Job(w))

-----------------------------------------------------------------------------
\* C40: changed_result gives None exactly for a job without a result;
\* otherwise it raises nothing and gives True when there is no ancestor,
\* when no completed ancestor is found, or when the ancestor's result is
\* another one, and False when the results are equal.
C40_ChangedResult ==
    call.fn = "changed_result"
       => /\ res.changed \in {"None", "True", "False"}
          /\ res.changed = "None" <=> call.result = "None"
          /\ call.result # "None"
                => LET ancestor ==
                           IF call.ancestor_job = NoJob THEN NoJob
                           ELSE IF call.ancestor_job.result # "None"
                           THEN call.ancestor_job
                           ELSE IF call.workdir = "None" THEN NoJob
                           ELSE call.found
                   IN  res.changed = "True"
                          <=> (ancestor = NoJob
                                 \/ ancestor.result # call.result)

====
